---- MODULE Spec2Model ----
(***************************************************************************)
(* The frame-to-result pipeline of aoe4_overlay: the single-slot frame     *)
(* handoff (PixelBufWrapperWithDroppedFrames behind a mutex), the consumer *)
(* loop FrameProcessor::run, and the bounded command channel to the GUI.   *)
(***************************************************************************)
EXTENDS Integers, Sequences, FiniteSets, TLC

\* ------------------------------------------------------------------ bounds
\* largest reading of now.elapsed(), in ticks
MaxTick == 2
\* Number of producer writes explored.
MaxWrites == 4
\* Number of correlation peaks in one region, over all templates.
MaxMatches == 3
\* Number of well separated peaks in one region.
MaxSeparated == 9
\* Number of regions of one recognize_text call.
MaxRegions == 2

\* ------------------------------------------------------- program constants
\* lib.rs: AREA_Y_OFFSET = -486.0; AREA_HEIGHT = -AREA_Y_OFFSET as i32
AREA_HEIGHT == 486
\* lib.rs: AREA_WIDTH
AREA_WIDTH == 267
\* capacity of the bounded channel that carries processed frames to the GUI
ResultCapacity == 2
\* bytes per pixel of the BGRx capture format (width = stride / 4)
BytesPerPixel == 4

\* TemplateMatchingConfig::default(): match_threshold 0.7 and min_confidence
\* 0.75; every score and confidence is counted in hundredths.
MATCH_THRESHOLD == 70
MIN_CONFIDENCE == 75
\* filter_overlapping_matches: distance < 10
MIN_DISTANCE == 10
\* recognize_digits: filtered_matches.len().min(8)
MAX_DIGITS == 8
\* fixedstr::str8 is tstr<8>: one length byte and 7 bytes of text
STR8_CAPACITY == 7
\* PaddleOcrEngine: confidence > 0.5; OnnxParallelOcrEngine: rec_score[0] > 0.5
SCORE_THRESHOLD == 50
\* lib.rs: VILLAGER_ICON_AREA, the search rectangle of the villager icon
VILLAGER_ICON_AREA == [x |-> 0, y |-> 0, width |-> 250, height |-> 80]
\* detect_icon: let threshold = 0.6, in hundredths
ICON_THRESHOLD == 60
\* lib.rs: INDEX_POP and INDEX_IDLE, the zero-based places of the population
\* and the idle count in detected_texts
INDEX_POP == 0
INDEX_IDLE == 5
\* lib.rs: STAT_RECT, the size of a stat region
STAT_RECT == [x |-> 0, y |-> 0, width |-> 80, height |-> 34]
\* lib.rs: AOE4_STATS_POS, x and y (= offset + AREA_Y_OFFSET) of the ten stats
AOE4_STATS_POS ==
    << [x |-> 50, y |-> 190 - 486], [x |-> 50, y |-> 265 - 486],
       [x |-> 50, y |-> 318 - 486], [x |-> 50, y |-> 369 - 486],
       [x |-> 50, y |-> 421 - 486],
       [x |-> 187, y |-> 190 - 486], [x |-> 187, y |-> 262 - 486],
       [x |-> 187, y |-> 315 - 486], [x |-> 187, y |-> 366 - 486],
       [x |-> 187, y |-> 419 - 486] >>

\* ------------------------------------------------------------------ frames
\* What the capture callback reads off a dequeued buffer: the chunk's stride
\* and size, and the length of the mapped data slice.
Buffers ==
    { [stride |-> 1068, size |-> 519048, slice_len |-> 519048],   \* 267 x 486
      [stride |-> 1200, size |-> 720000, slice_len |-> 720000],   \* 300 x 600
      [stride |-> 400,  size |-> 40000,  slice_len |-> 40000],    \* 100 x 100
      [stride |-> 1068, size |-> 427200, slice_len |-> 519048] }  \* chunk shorter than the slice

\* width and height as the capture callback derives them
BufWidth(b) == b.stride \div BytesPerPixel
BufHeight(b) == b.slice_len \div b.stride

\* The capture callback forwards a buffer only when this holds.
ValidBuffer(b) ==
    ~(BufWidth(b) <= 0 \/ BufHeight(b) <= 0 \/ b.size <= 0 \/ b.slice_len < b.size)

\* PixbufWrapper::default()
DefaultPixbuf ==
    [bgr_buffer |-> [id |-> 0, len |-> 0], width |-> 0, height |-> 0, stride |-> 0]

\* PixbufWrapper::copy_from_slice: the bytes are identified by the number of
\* the write that produced them (id) and their length.
CopyFromSlice(self, bytes, width, height, stride) ==
    [bgr_buffer |-> bytes, width |-> width, height |-> height, stride |-> stride]

\* copy_from_pixbuf that leaves the receiver's dimensions as they were
CopyFromPixbufBytesOnly(self, other) == [self EXCEPT !.bgr_buffer = other.bgr_buffer]

\* PixbufWrapper::copy_from_pixbuf
CopyFromPixbuf(self, other) ==
    [bgr_buffer |-> other.bgr_buffer,
     width |-> other.width,
     height |-> other.height,
     stride |-> other.stride]

IsEmpty(buf) == buf.len = 0

\* No AnalysisResult yet.
\* The value of analyzer.analyze(cv_mat): none yet, Ok(AnalysisResult) or Err(e)
NoAnalysis == [kind |-> "None", detected_texts |-> <<>>]
AnalysisErr == [kind |-> "Err", detected_texts |-> <<>>]

\* No Mat built yet. A Mat is the window of a frame it views: the frame's id,
\* the window's top-left corner in the frame and its size.
NoMat == [id |-> 0, x |-> 0, y |-> 0, rows |-> 0, cols |-> 0]

VARIABLES
    frame_rx,           \* control channel Receiver<bool>: queued has_data signals
    senders_alive,      \* some Sender of the control channel still exists
    frame_rx_content,   \* the slot: [pixbuf, frames_written]
    lock,               \* holder of the slot mutex: "free" or "processor"
    processed_tx,       \* bounded channel of GuiCommand to the GUI
    pc,                 \* position of FrameProcessor::run
    run_result,         \* "running", "ok", "err", "panic", "crash"
    frame,              \* run's local PixbufWrapper
    cv_mat,             \* the Mat run holds: [id, x, y, rows, cols]
    dropped_frames,     \* run's local of the current drain
    frame_count, processed_count, dropped_count,
    signal_pending,     \* the producer has written and not yet signalled
    stop_sent,          \* main has sent has_data = false
    \* history variables
    writes,             \* number of producer writes so far
    last_write,         \* the frame stored by the most recent write
    last_signal,        \* outcome of the latest recv: "none", "true", "false", "disconnected"
    signals_true,       \* number of has_data = true signals consumed
    dropped_sum,        \* sum of the dropped_frames computed by drains
    send_failed,        \* number of try_send calls that failed
    last_analyzed,      \* id of the frame of the latest analyze call
    send_attempts,      \* number of try_send calls of run so far
    analysis,           \* run's local: the AnalysisResult analyze returned
    gui_running,        \* the GUI command loop has not met Quit
    quit_clicked,       \* the quit button has been clicked
    applied_count,      \* number of ProcessedFrame commands applied to the overlay window
    \* one call of OcrEngine::recognize_text
    engine,             \* the OcrEngineWrapper variant, "none" outside a call
    fallback_engine,    \* TemplateMatchingOcrEngine.fallback_engine.is_some()
    backend,            \* per region, what the recognition backend returns
    pending,            \* regions whose recognition has not run yet
    detected_texts,     \* the array recognize_text returns
    engine_pc,          \* "idle", "call", "ok", "err"
    \* one call of TemplateMatchingOcrEngine::recognize_digits
    found,              \* per template symbol, the scored locations of the correlation result
    template_order,     \* the order in which the HashMap yields the templates
    template_order_2,   \* the order in another engine instance
    matcher_pc,         \* "idle", "ready", "done"
    filtered_matches,   \* what filter_overlapping_matches returned
    recognized,         \* (text, confidence) returned under template_order
    recognized_2,       \* (text, confidence) returned under template_order_2
    \* one call of a primary engine combined with a fallback engine
    composition,        \* "FallbackOcrEngine" or "TemplateMatchingWithFallback"
    primary,            \* per region, what the primary recognized: [text, confidence]
    fallback_results,   \* what the fallback engine returns when called: texts or "Err"
    fallback_invoked,   \* the fallback engine has been called
    final_results,      \* the returned array
    fallback_pc,        \* "idle", "call", "ok", "err"
    \* one call of ImageAnalyzerInner::analyze
    img,                \* the analyzed Mat: [rows, cols]
    villager_icon_template, \* the icon template: [rows, cols]
    icon_score,         \* max_val of the icon's correlation result, in hundredths
    elapsed,            \* the three readings of now.elapsed(), in ticks
    analyze_pc,         \* "idle", "icon", "convert", "ocr", "ok", "err", "panic"
    has_villager_icon,
    template_matched,   \* detect_icon has run match_template
    detect_villager_time, convert_color_time, ocr_time,
    \* the crop of one stat region out of the analyzed image
    region_img,         \* the RgbImage: [width, height]
    region_index,       \* index into AOE4_STATS_POS, from 1
    subview,            \* the rectangle handed to img.view
    region_pc,          \* "idle", "crop", "cropped", "panic"
    \* one call of OverlayWindow::update_image_from_processed_frame
    label_input,        \* what the screen showed: [wellformed, cur, total, idle, idle_read, has_villager, text]
    shown_texts,        \* detected_texts[INDEX_POP] and detected_texts[INDEX_IDLE]
    centered_label,     \* the text of the centered label
    label_pc            \* "idle", "update", "done"

vars == <<frame_rx, senders_alive, frame_rx_content, lock, processed_tx, pc, run_result,
          frame, cv_mat, dropped_frames, frame_count, processed_count, dropped_count,
          signal_pending, stop_sent, writes, last_write, last_signal, signals_true,
          dropped_sum, send_failed, last_analyzed,
          send_attempts, analysis, gui_running, quit_clicked,
          engine, fallback_engine, backend, pending, detected_texts, engine_pc,
          found, template_order, template_order_2, matcher_pc, filtered_matches,
          recognized, recognized_2,
          composition, primary, fallback_results, fallback_invoked, final_results,
          fallback_pc,
          img, villager_icon_template, icon_score, elapsed, analyze_pc, has_villager_icon,
          template_matched, detect_villager_time, convert_color_time, ocr_time,
          applied_count,
          region_img, region_index, subview, region_pc,
          label_input, shown_texts, centered_label, label_pc>>

engine_vars == <<engine, fallback_engine, backend, pending, detected_texts, engine_pc>>
matcher_vars == <<found, template_order, template_order_2, matcher_pc, filtered_matches,
                  recognized, recognized_2>>
fallback_vars == <<composition, primary, fallback_results, fallback_invoked, final_results,
                   fallback_pc>>
analyzer_vars == <<img, villager_icon_template, icon_score, elapsed, analyze_pc,
                   has_villager_icon, template_matched, detect_villager_time,
                   convert_color_time, ocr_time>>
region_vars == <<region_img, region_index, subview, region_pc>>
label_vars == <<label_input, shown_texts, centered_label, label_pc>>
side_vars == <<region_vars, label_vars>>
ocr_vars == <<engine_vars, matcher_vars, fallback_vars, analyzer_vars, side_vars>>
gui_vars == <<gui_running, quit_clicked, applied_count>>
pipeline_vars == <<frame_rx, senders_alive, frame_rx_content, lock, processed_tx, pc,
                   run_result, frame, cv_mat, dropped_frames, frame_count, processed_count,
                   dropped_count, signal_pending, stop_sent, writes, last_write,
                   last_signal, signals_true, dropped_sum, send_failed, last_analyzed,
                   send_attempts, analysis, gui_running, quit_clicked, applied_count>>

producer_vars == <<senders_alive, signal_pending, stop_sent, writes, last_write>>
processor_vars == <<pc, run_result, frame, cv_mat, dropped_frames, frame_count, processed_count,
                    dropped_count, last_signal, signals_true, dropped_sum, send_failed,
                    last_analyzed, send_attempts, analysis>>

\* The frame pipeline before the first signal
PipelineInit ==
    /\ frame_rx = <<>>
    /\ senders_alive = TRUE
    /\ frame_rx_content = [pixbuf |-> DefaultPixbuf, frames_written |-> 0]
    /\ lock = "free"
    /\ processed_tx = <<>>
    /\ pc = "recv"
    /\ run_result = "running"
    /\ frame = DefaultPixbuf
    /\ cv_mat = NoMat
    /\ dropped_frames = 0
    /\ frame_count = 0
    /\ processed_count = 0
    /\ dropped_count = 0
    /\ signal_pending = FALSE
    /\ stop_sent = FALSE
    /\ writes = 0
    /\ last_write = DefaultPixbuf
    /\ last_signal = "none"
    /\ signals_true = 0
    /\ dropped_sum = 0
    /\ send_failed = 0
    /\ last_analyzed = 0
    /\ send_attempts = 0
    /\ analysis = NoAnalysis
    /\ gui_running = TRUE
    /\ quit_clicked = FALSE
    /\ applied_count = 0

\* No recognize_text call under way
EngineIdle ==
    /\ engine = "none"
    /\ fallback_engine = FALSE
    /\ backend = <<>>
    /\ pending = {}
    /\ detected_texts = <<>>
    /\ engine_pc = "idle"

\* No recognize_digits call under way
MatcherIdle ==
    /\ found = <<>>
    /\ template_order = <<>>
    /\ template_order_2 = <<>>
    /\ matcher_pc = "idle"
    /\ filtered_matches = <<>>
    /\ recognized = <<>>
    /\ recognized_2 = <<>>

\* No combined primary and fallback call under way
FallbackIdle ==
    /\ composition = "none"
    /\ primary = <<>>
    /\ fallback_results = <<>>
    /\ fallback_invoked = FALSE
    /\ final_results = <<>>
    /\ fallback_pc = "idle"

\* No analyze call under way
AnalyzerIdle ==
    /\ img = [rows |-> 0, cols |-> 0]
    /\ villager_icon_template = [rows |-> 0, cols |-> 0]
    /\ icon_score = 0
    /\ elapsed = <<>>
    /\ analyze_pc = "idle"
    /\ has_villager_icon = FALSE
    /\ template_matched = FALSE
    /\ detect_villager_time = 0
    /\ convert_color_time = 0
    /\ ocr_time = 0

\* No region crop under way
RegionIdle ==
    /\ region_img = [width |-> 0, height |-> 0]
    /\ region_index = 0
    /\ subview = [x |-> 0, y |-> 0, width |-> 0, height |-> 0]
    /\ region_pc = "idle"

\* No label update under way
LabelIdle ==
    /\ label_input = [wellformed |-> FALSE, cur |-> 0, total |-> 0, idle |-> 0,
                      idle_read |-> FALSE, has_villager |-> FALSE, text |-> <<>>]
    /\ shown_texts = <<>>
    /\ centered_label = ""
    /\ label_pc = "idle"

SideIdle == RegionIdle /\ LabelIdle

Init == PipelineInit /\ EngineIdle /\ MatcherIdle /\ FallbackIdle /\ AnalyzerIdle /\ SideIdle

\* ------------------------------------------------- digit template matcher
\* A text is a sequence of one-character strings. A DigitMatch is
\* [digit, x, confidence]; a confidence returned by recognize_digits is the
\* fraction [num, den] of hundredths.

Abs(n) == IF n < 0 THEN -n ELSE n
Min(a, b) == IF a < b THEN a ELSE b

\* match_template: every location of the correlation result whose score is at
\* least match_threshold becomes a DigitMatch of the template's symbol.
MatchTemplate(digit, results) ==
    LET above == SelectSeq(results, LAMBDA r : r.score >= MATCH_THRESHOLD)
    IN [i \in 1..Len(above) |->
           [digit |-> digit, x |-> above[i].x, confidence |-> above[i].score]]

\* for (&digit, templates) in &self.digit_templates { matches.extend(..) }
RECURSIVE CollectMatches(_, _)
CollectMatches(order, f) ==
    IF order = <<>> THEN <<>>
    ELSE MatchTemplate(Head(order), f[Head(order)]) \o CollectMatches(Tail(order), f)

\* sort_by_key(|m| m.x): a stable sort, ascending x
RECURSIVE InsertByX(_, _)
InsertByX(sorted, m) ==
    IF sorted = <<>> THEN <<m>>
    ELSE IF Head(sorted).x <= m.x
           THEN <<Head(sorted)>> \o InsertByX(Tail(sorted), m)
           ELSE <<m>> \o sorted

RECURSIVE SortByX(_)
SortByX(matches) ==
    IF matches = <<>> THEN <<>>
    ELSE InsertByX(SortByX(SubSeq(matches, 1, Len(matches) - 1)), matches[Len(matches)])

\* the comparison turned round: ascending confidence
RECURSIVE InsertByConfidenceAscending(_, _)
InsertByConfidenceAscending(sorted, m) ==
    IF sorted = <<>> THEN <<m>>
    ELSE IF Head(sorted).confidence <= m.confidence
           THEN <<Head(sorted)>> \o InsertByConfidenceAscending(Tail(sorted), m)
           ELSE <<m>> \o sorted

\* sort_by(|a, b| b.confidence.partial_cmp(&a.confidence).unwrap()): a stable
\* sort, descending confidence
RECURSIVE InsertByConfidence(_, _)
InsertByConfidence(sorted, m) ==
    IF sorted = <<>> THEN <<m>>
    ELSE IF Head(sorted).confidence >= m.confidence
           THEN <<Head(sorted)>> \o InsertByConfidence(Tail(sorted), m)
           ELSE <<m>> \o sorted

RECURSIVE SortByConfidence(_)
SortByConfidence(matches) ==
    IF matches = <<>> THEN <<>>
    ELSE InsertByConfidence(SortByConfidence(SubSeq(matches, 1, Len(matches) - 1)),
                            matches[Len(matches)])

\* an overlap test that sees only matches at the very same x
OverlapsSameX(current, filtered) ==
    \E i \in DOMAIN filtered : Abs(current.x - filtered[i].x) = 0

\* filtered.iter().any(|existing| (current.x - existing.x).abs() < 10)
Overlaps(current, filtered) ==
    \E i \in DOMAIN filtered : Abs(current.x - filtered[i].x) < MIN_DISTANCE

\* for current in sorted_matches { if !overlaps { filtered.push(current) } }
RECURSIVE KeepNonOverlapping(_, _)
KeepNonOverlapping(sorted_matches, filtered) ==
    IF sorted_matches = <<>> THEN filtered
    ELSE KeepNonOverlapping(Tail(sorted_matches),
                            IF Overlaps(Head(sorted_matches), filtered)
                              THEN filtered
                              ELSE Append(filtered, Head(sorted_matches)))

\* filter_overlapping_matches without the final sort by x
FilterOverlappingMatchesUnsorted(matches) ==
    IF matches = <<>> THEN matches
    ELSE KeepNonOverlapping(SortByConfidence(matches), <<>>)

\* filter_overlapping_matches
FilterOverlappingMatches(matches) ==
    IF matches = <<>> THEN matches
    ELSE SortByX(KeepNonOverlapping(SortByConfidence(matches), <<>>))

\* fixedstr::str8::push of a one-byte string: the byte is stored while the
\* text is shorter than the capacity and is left out otherwise
Str8Push(text, ch) ==
    IF Len(text) + 1 <= STR8_CAPACITY THEN Append(text, ch) ELSE text

\* for i in 0..max_len { text.push(filtered_matches[i].digit ..) }
RECURSIVE PushDigits(_, _, _)
PushDigits(text, filtered, n) ==
    IF n = 0 THEN text
    ELSE Str8Push(PushDigits(text, filtered, n - 1), filtered[n].digit)

\* the leftmost match's score taken for every match
SumConfidenceOfFirst(matches) ==
    IF matches = <<>> THEN 0 ELSE Head(matches).confidence * Len(matches)

RECURSIVE SumConfidence(_)
SumConfidence(matches) ==
    IF matches = <<>> THEN 0 ELSE Head(matches).confidence + SumConfidence(Tail(matches))

\* recognize_digits, from the matches collected in template order
RecognizeDigitsFrom(matches) ==
    LET filtered == FilterOverlappingMatches(SortByX(matches))
    IN IF filtered = <<>>
         THEN [text |-> <<>>, confidence |-> [num |-> 0, den |-> 1]]
         ELSE [text |-> PushDigits(<<>>, filtered, Min(Len(filtered), MAX_DIGITS)),
               confidence |-> [num |-> SumConfidence(filtered), den |-> Len(filtered)]]

\* recognize_digits on a region whose correlation results are f, in an engine
\* whose HashMap yields the templates in the given order
RecognizeDigits(order, f) == RecognizeDigitsFrom(CollectMatches(order, f))

\* ------------------------------------------------------ recognition engines
\* What a backend returns for one region is [ok, text, confidence]: ok is
\* FALSE when the call returned Err, confidence is a fraction of hundredths.

IsAsciiDigit(c) == c \in {"0", "1", "2", "3", "4", "5", "6", "7", "8", "9"}

\* an acceptance test that looks at no character
AllDigitsOrSlashUnchecked(text) == TRUE

\* text.chars().all(|c| c.is_ascii_digit() || c == '/')
AllDigitsOrSlash(text) ==
    \A k \in DOMAIN text : IsAsciiDigit(text[k]) \/ text[k] = "/"

\* fixedstr::str8 from a &str or String: the bytes that fit
Str8From(text) == SubSeq(text, 1, Min(Len(text), STR8_CAPACITY))

\* confidence > hundredths / 100
Above(confidence, hundredths) == confidence.num > hundredths * confidence.den

\* confidence < hundredths / 100
Below(confidence, hundredths) == confidence.num < hundredths * confidence.den

\* PaddleOcrEngine::recognize_text: detected_texts[i] after the loop body
PaddleEntry(r) ==
    IF r.text = <<>> THEN <<>>
    ELSE IF AllDigitsOrSlash(r.text) /\ Above(r.confidence, SCORE_THRESHOLD)
           THEN Str8From(r.text)
           ELSE <<>>

\* a batch engine that also asks for a score above 0.5
OnnxEntryWithScore(r) ==
    IF r.text = <<>> THEN <<>>
    ELSE IF AllDigitsOrSlash(r.text) /\ Above(r.confidence, SCORE_THRESHOLD)
           THEN Str8From(r.text)
           ELSE <<>>

\* OnnxOcrEngine::recognize_text: detected_texts[i] after the loop body
OnnxEntry(r) ==
    IF r.text = <<>> THEN <<>>
    ELSE IF AllDigitsOrSlash(r.text) THEN Str8From(r.text) ELSE <<>>

\* OnnxParallelOcrEngine::recognize_text: does the worker assign *entry
OnnxParallelAccepts(r) ==
    /\ r.ok
    /\ r.text # <<>>
    /\ AllDigitsOrSlash(r.text)
    /\ Above(r.confidence, SCORE_THRESHOLD)

\* TemplateMatchingOcrEngine::recognize_text: detected_texts[i] after the
\* loop body; r is what recognize_digits returned
TemplateMatchingEntry(has_fallback, r) ==
    LET should_use_fallback ==
            \/ r.text = <<>>
            \/ Below(r.confidence, MIN_CONFIDENCE)
            \/ ~AllDigitsOrSlash(r.text)
    IN IF should_use_fallback /\ has_fallback THEN <<>>
       ELSE IF r.text # <<>> /\ AllDigitsOrSlash(r.text) THEN r.text
       ELSE <<>>

\* ---------------------------------------------------------------- producer
\* The capture side: stores a frame in the slot under the mutex and counts it.
ProducerWrite(b) ==
    /\ senders_alive
    /\ ~signal_pending
    /\ writes < MaxWrites
    /\ ValidBuffer(b)
    /\ lock = "free"
    /\ LET bytes == [id |-> writes + 1, len |-> b.size]
           stored == CopyFromSlice(frame_rx_content.pixbuf, bytes,
                                   BufWidth(b), BufHeight(b), b.stride)
       IN /\ frame_rx_content' = [pixbuf |-> stored,
                                  frames_written |-> frame_rx_content.frames_written + 1]
          /\ last_write' = [bgr_buffer |-> bytes, width |-> BufWidth(b),
                            height |-> BufHeight(b), stride |-> b.stride]
    /\ writes' = writes + 1
    /\ signal_pending' = TRUE
    /\ UNCHANGED <<frame_rx, senders_alive, lock, processed_tx, stop_sent>>
    /\ UNCHANGED processor_vars
    /\ UNCHANGED gui_vars
    /\ UNCHANGED ocr_vars

\* The capture side announces the write: has_data = true.
ProducerSignal ==
    /\ senders_alive
    /\ signal_pending
    /\ signal_pending' = FALSE
    /\ frame_rx' = IF pc = "done" THEN frame_rx ELSE Append(frame_rx, TRUE)
    /\ UNCHANGED <<senders_alive, frame_rx_content, lock, processed_tx, stop_sent,
                   writes, last_write>>
    /\ UNCHANGED processor_vars
    /\ UNCHANGED gui_vars
    /\ UNCHANGED ocr_vars

\* main asks the processor to stop: has_data = false.
Stop ==
    /\ senders_alive
    /\ ~stop_sent
    /\ stop_sent' = TRUE
    /\ frame_rx' = IF pc = "done" THEN frame_rx ELSE Append(frame_rx, FALSE)
    /\ UNCHANGED <<senders_alive, frame_rx_content, lock, processed_tx, signal_pending,
                   writes, last_write>>
    /\ UNCHANGED processor_vars
    /\ UNCHANGED gui_vars
    /\ UNCHANGED ocr_vars

\* Every Sender of the control channel is dropped.
DropSenders ==
    /\ senders_alive
    /\ ~signal_pending
    /\ senders_alive' = FALSE
    /\ UNCHANGED <<frame_rx, frame_rx_content, lock, processed_tx, signal_pending,
                   stop_sent, writes, last_write>>
    /\ UNCHANGED processor_vars
    /\ UNCHANGED gui_vars
    /\ UNCHANGED ocr_vars

\* ---------------------------------------------------------------- analysis
\* What the stat region of the frame of write id shows, as the correlation
\* results of the templates '3', '/' and 'x': a '3', a '3' followed by an 'x',
\* or a faint '/'. The frame has two stat regions; the second shows what the
\* first region of the next frame shows.
ScreenPeaks(id) ==
    LET three == <<[x |-> 0, score |-> 95]>>
        slash == <<[x |-> 10, score |-> 72]>>
        other == <<[x |-> 20, score |-> 95]>>
    IN IF id % 3 = 1 THEN [t \in {"3", "/", "x"} |-> IF t = "3" THEN three ELSE <<>>]
       ELSE IF id % 3 = 2
              THEN [t \in {"3", "/", "x"} |-> IF t = "/" THEN <<>>
                                               ELSE IF t = "3" THEN three ELSE other]
              ELSE [t \in {"3", "/", "x"} |-> IF t = "/" THEN slash ELSE <<>>]

\* analyze with the template engine: recognize_text on the regions of the
\* frame, packed into an AnalysisResult
AnalysisOf(id) ==
    [kind |-> "Ok",
     detected_texts |->
        [r \in 1..2 |->
            TemplateMatchingEntry(FALSE,
                RecognizeDigits(<<"3", "/", "x">>, ScreenPeaks(id + r - 1)))]]

\* --------------------------------------------------------------- processor
\* dropped_frames counted without the frame that is received
DroppedFramesAll(w) == w

\* dropped_frames = content.frames_written - 1
DroppedFrames(w) == w - 1

\* if !has_data { break; }
IsQuitSignalIgnored(has_data) == FALSE
IsQuitSignal(has_data) == ~has_data

\* recv that fails as soon as every Sender is gone, whatever is queued
ProcRecvLeavesOnDisconnect ==
    /\ pc = "recv"
    /\ \/ /\ frame_rx # <<>>
          /\ senders_alive
          /\ frame_rx' = Tail(frame_rx)
          /\ last_signal' = IF Head(frame_rx) THEN "true" ELSE "false"
          /\ signals_true' = IF Head(frame_rx) THEN signals_true + 1 ELSE signals_true
          /\ IF IsQuitSignal(Head(frame_rx))
               THEN /\ pc' = "done"
                    /\ run_result' = "ok"
               ELSE /\ pc' = "lock"
                    /\ UNCHANGED run_result
       \/ /\ ~senders_alive
          /\ pc' = "done"
          /\ run_result' = "ok"
          /\ last_signal' = "disconnected"
          /\ UNCHANGED <<frame_rx, signals_true>>
    /\ UNCHANGED <<frame_rx_content, lock, processed_tx, frame, cv_mat, dropped_frames,
                   frame_count, processed_count, dropped_count, dropped_sum,
                   send_failed, last_analyzed>>
    /\ UNCHANGED <<send_attempts, analysis>>
    /\ UNCHANGED producer_vars
    /\ UNCHANGED gui_vars
    /\ UNCHANGED ocr_vars

\* while let Ok(has_data) = frame_rx.recv() { if !has_data { break; } ...
\* recv blocks while the channel is empty and a Sender exists; it returns Err
\* once the channel is empty and every Sender is gone, which ends the loop.
ProcRecv ==
    /\ pc = "recv"
    /\ \/ /\ frame_rx # <<>>
          /\ frame_rx' = Tail(frame_rx)
          /\ last_signal' = IF Head(frame_rx) THEN "true" ELSE "false"
          /\ signals_true' = IF Head(frame_rx) THEN signals_true + 1 ELSE signals_true
          /\ IF IsQuitSignal(Head(frame_rx))
               THEN /\ pc' = "done"
                    /\ run_result' = "ok"
               ELSE /\ pc' = "lock"
                    /\ UNCHANGED run_result
       \/ /\ frame_rx = <<>>
          /\ ~senders_alive
          /\ pc' = "done"
          /\ run_result' = "ok"
          /\ last_signal' = "disconnected"
          /\ UNCHANGED <<frame_rx, signals_true>>
    /\ UNCHANGED <<frame_rx_content, lock, processed_tx, frame, cv_mat, dropped_frames,
                   frame_count, processed_count, dropped_count, dropped_sum,
                   send_failed, last_analyzed>>
    /\ UNCHANGED <<send_attempts, analysis>>
    /\ UNCHANGED producer_vars
    /\ UNCHANGED gui_vars
    /\ UNCHANGED ocr_vars

\* The slot read without taking the mutex
ProcLockNotTaken ==
    /\ pc = "lock"
    /\ pc' = "check"
    /\ UNCHANGED <<frame_rx, frame_rx_content, lock, processed_tx, run_result, frame, cv_mat,
                   dropped_frames, frame_count, processed_count, dropped_count,
                   last_signal, signals_true, dropped_sum, send_failed, last_analyzed>>
    /\ UNCHANGED <<send_attempts, analysis>>
    /\ UNCHANGED producer_vars
    /\ UNCHANGED gui_vars
    /\ UNCHANGED ocr_vars

\* let mut content = frame_rx_content.lock().unwrap();
ProcLock ==
    /\ pc = "lock"
    /\ lock = "free"
    /\ lock' = "processor"
    /\ pc' = "check"
    /\ UNCHANGED <<frame_rx, frame_rx_content, processed_tx, run_result, frame, cv_mat,
                   dropped_frames, frame_count, processed_count, dropped_count,
                   last_signal, signals_true, dropped_sum, send_failed, last_analyzed>>
    /\ UNCHANGED <<send_attempts, analysis>>
    /\ UNCHANGED producer_vars
    /\ UNCHANGED gui_vars
    /\ UNCHANGED ocr_vars

\* The test without the counter
NoFrameAvailableBufferOnly(content) == IsEmpty(content.pixbuf.bgr_buffer)

\* The test with && in place of ||
NoFrameAvailableBoth(content) ==
    IsEmpty(content.pixbuf.bgr_buffer) /\ content.frames_written = 0

\* if content.pixbuf.bgr_buffer.is_empty() || content.frames_written == 0
NoFrameAvailable(content) ==
    IsEmpty(content.pixbuf.bgr_buffer) \/ content.frames_written = 0

\* if no frame: continue (the guard is dropped); else frame_count += 1 and
\* dropped_frames = content.frames_written - 1
ProcCheck ==
    /\ pc = "check"
    /\ IF NoFrameAvailable(frame_rx_content)
         THEN /\ lock' = "free"
              /\ pc' = "recv"
              /\ UNCHANGED <<frame_count, dropped_frames, dropped_sum>>
         ELSE /\ frame_count' = frame_count + 1
              /\ dropped_frames' = DroppedFrames(frame_rx_content.frames_written)
              /\ dropped_sum' = dropped_sum + DroppedFrames(frame_rx_content.frames_written)
              /\ pc' = "reset"
              /\ UNCHANGED lock
    /\ UNCHANGED <<frame_rx, frame_rx_content, processed_tx, run_result, frame, cv_mat,
                   processed_count, dropped_count, last_signal, signals_true,
                   send_failed, last_analyzed>>
    /\ UNCHANGED <<send_attempts, analysis>>
    /\ UNCHANGED producer_vars
    /\ UNCHANGED gui_vars
    /\ UNCHANGED ocr_vars

\* The frame copied without the counter being reset
ProcCopyWithoutReset ==
    /\ pc = "reset"
    /\ UNCHANGED frame_rx_content
    /\ frame' = CopyFromPixbuf(frame, frame_rx_content.pixbuf)
    /\ pc' = "unlock"
    /\ UNCHANGED <<frame_rx, lock, processed_tx, run_result, cv_mat, dropped_frames,
                   frame_count, processed_count, dropped_count, last_signal,
                   signals_true, dropped_sum, send_failed, last_analyzed>>
    /\ UNCHANGED <<send_attempts, analysis>>
    /\ UNCHANGED producer_vars
    /\ UNCHANGED gui_vars
    /\ UNCHANGED ocr_vars

\* content.frames_written = 0; frame.copy_from_pixbuf(&content.pixbuf);
ProcResetCopy ==
    /\ pc = "reset"
    /\ frame_rx_content' = [frame_rx_content EXCEPT !.frames_written = 0]
    /\ frame' = CopyFromPixbuf(frame, frame_rx_content.pixbuf)
    /\ pc' = "unlock"
    /\ UNCHANGED <<frame_rx, lock, processed_tx, run_result, cv_mat, dropped_frames,
                   frame_count, processed_count, dropped_count, last_signal,
                   signals_true, dropped_sum, send_failed, last_analyzed>>
    /\ UNCHANGED <<send_attempts, analysis>>
    /\ UNCHANGED producer_vars
    /\ UNCHANGED gui_vars
    /\ UNCHANGED ocr_vars

\* The guard kept alive across the rest of the iteration
ProcUnlockGuardKept ==
    /\ pc = "unlock"
    /\ dropped_count' = dropped_count + dropped_frames
    /\ pc' = "mat"
    /\ UNCHANGED <<frame_rx, frame_rx_content, lock, processed_tx, run_result, frame, cv_mat,
                   dropped_frames, frame_count, processed_count, last_signal,
                   signals_true, dropped_sum, send_failed, last_analyzed>>
    /\ UNCHANGED <<send_attempts, analysis>>
    /\ UNCHANGED producer_vars
    /\ UNCHANGED gui_vars
    /\ UNCHANGED ocr_vars

\* drop(content); dropped_count += dropped_frames;
ProcUnlock ==
    /\ pc = "unlock"
    /\ lock' = "free"
    /\ dropped_count' = dropped_count + dropped_frames
    /\ pc' = "mat"
    /\ UNCHANGED <<frame_rx, frame_rx_content, processed_tx, run_result, frame, cv_mat,
                   dropped_frames, frame_count, processed_count, last_signal,
                   signals_true, dropped_sum, send_failed, last_analyzed>>
    /\ UNCHANGED <<send_attempts, analysis>>
    /\ UNCHANGED producer_vars
    /\ UNCHANGED gui_vars
    /\ UNCHANGED ocr_vars

\* Mat::new_nd_with_data_unsafe(&[height, width], CV_8UC4, ptr) rejects
\* negative sizes; it never sees the length of the buffer behind ptr.
MatCreateFails(f) == f.height < 0 \/ f.width < 0

\* let r = Mat::new_nd_with_data_unsafe(..); Err(e) => continue
ProcBuildMat ==
    /\ pc = "mat"
    /\ IF MatCreateFails(frame)
         THEN /\ pc' = "recv"
              /\ UNCHANGED cv_mat
         ELSE /\ pc' = "crop"
              /\ cv_mat' = [id |-> frame.bgr_buffer.id, x |-> 0, y |-> 0,
                            rows |-> frame.height, cols |-> frame.width]
    /\ UNCHANGED <<frame_rx, frame_rx_content, lock, processed_tx, run_result, frame,
                   dropped_frames, frame_count, processed_count, dropped_count,
                   last_signal, signals_true, dropped_sum, send_failed, last_analyzed>>
    /\ UNCHANGED <<send_attempts, analysis>>
    /\ UNCHANGED producer_vars
    /\ UNCHANGED gui_vars
    /\ UNCHANGED ocr_vars

\* the working area anchored at the top of the frame
RoiAtTop(f) == [x |-> 0, y |-> 0, width |-> AREA_WIDTH, height |-> AREA_HEIGHT]

\* Rect::new(0, frame.height - AREA_HEIGHT, AREA_WIDTH, AREA_HEIGHT)
Roi(f) == [x |-> 0, y |-> f.height - AREA_HEIGHT, width |-> AREA_WIDTH, height |-> AREA_HEIGHT]

\* Mat::roi succeeds only for a rectangle inside the Mat.
RoiInside(m, r) ==
    /\ 0 <= r.x /\ 0 <= r.width /\ r.x + r.width <= m.cols
    /\ 0 <= r.y /\ 0 <= r.height /\ r.y + r.height <= m.rows

\* Cloning the window reads rows r.y .. r.y + r.height - 1 of a Mat whose rows
\* are m.cols * 4 bytes apart; the buffer may end before the last of them.
ReadsOutOfBounds(f, m, r) ==
    ((r.y + r.height - 1) * m.cols + r.x + r.width) * BytesPerPixel > f.bgr_buffer.len

\* let cv_mat = Mat::roi(&cv_mat, roi).unwrap().try_clone()?;
ProcCrop ==
    /\ pc = "crop"
    /\ LET r == Roi(frame) IN
       IF ~RoiInside(cv_mat, r)
         THEN \* unwrap() of an Err
              /\ pc' = "done"
              /\ run_result' = "panic"
              /\ UNCHANGED cv_mat
         ELSE \/ /\ pc' = "analyze"
                 /\ cv_mat' = [id |-> cv_mat.id, x |-> r.x, y |-> r.y,
                               rows |-> r.height, cols |-> r.width]
                 /\ UNCHANGED run_result
              \/ \* the read past the end of the buffer faults
                 /\ ReadsOutOfBounds(frame, cv_mat, r)
                 /\ pc' = "done"
                 /\ run_result' = "crash"
                 /\ UNCHANGED cv_mat
    /\ UNCHANGED <<frame_rx, frame_rx_content, lock, processed_tx, frame,
                   dropped_frames, frame_count, processed_count, dropped_count,
                   last_signal, signals_true, dropped_sum, send_failed, last_analyzed>>
    /\ UNCHANGED <<send_attempts, analysis>>
    /\ UNCHANGED producer_vars
    /\ UNCHANGED gui_vars
    /\ UNCHANGED ocr_vars

\* The analysis error handed on to the GUI instead of returned
ProcAnalyzeForwardError ==
    /\ pc = "analyze"
    /\ last_analyzed' = cv_mat.id
    /\ \E ok \in BOOLEAN :
         IF ok
           THEN /\ processed_count' = processed_count + 1
                /\ analysis' = AnalysisOf(cv_mat.id)
                /\ pc' = "send"
                /\ UNCHANGED run_result
           ELSE /\ pc' = "send"
                /\ analysis' = AnalysisErr
                /\ UNCHANGED <<processed_count, run_result>>
    /\ UNCHANGED <<frame_rx, frame_rx_content, lock, processed_tx, frame, cv_mat,
                   dropped_frames, frame_count, dropped_count,
                   last_signal, signals_true, dropped_sum, send_failed>>
    /\ UNCHANGED send_attempts
    /\ UNCHANGED producer_vars
    /\ UNCHANGED gui_vars
    /\ UNCHANGED ocr_vars

\* The analysis error logged and the frame skipped instead of returned
ProcAnalyzeSkip ==
    /\ pc = "analyze"
    /\ last_analyzed' = cv_mat.id
    /\ \E ok \in BOOLEAN :
         IF ok
           THEN /\ processed_count' = processed_count + 1
                /\ analysis' = AnalysisOf(cv_mat.id)
                /\ pc' = "send"
                /\ UNCHANGED run_result
           ELSE /\ pc' = "recv"
                /\ analysis' = AnalysisErr
                /\ UNCHANGED <<processed_count, run_result>>
    /\ UNCHANGED <<frame_rx, frame_rx_content, lock, processed_tx, frame, cv_mat,
                   dropped_frames, frame_count, dropped_count,
                   last_signal, signals_true, dropped_sum, send_failed>>
    /\ UNCHANGED send_attempts
    /\ UNCHANGED producer_vars
    /\ UNCHANGED gui_vars
    /\ UNCHANGED ocr_vars

\* match analyzer.analyze(cv_mat) { Ok(analysis) => processed_count += 1 ..
\*                                  Err(e) => return Err(e) }
ProcAnalyze ==
    /\ pc = "analyze"
    /\ last_analyzed' = cv_mat.id
    /\ \E ok \in BOOLEAN :
         IF ok
           THEN /\ processed_count' = processed_count + 1
                /\ analysis' = AnalysisOf(cv_mat.id)
                /\ pc' = "send"
                /\ UNCHANGED run_result
           ELSE /\ pc' = "done"
                /\ run_result' = "err"
                /\ analysis' = AnalysisErr
                /\ UNCHANGED processed_count
    /\ UNCHANGED <<frame_rx, frame_rx_content, lock, processed_tx, frame, cv_mat,
                   dropped_frames, frame_count, dropped_count,
                   last_signal, signals_true, dropped_sum, send_failed>>
    /\ UNCHANGED send_attempts
    /\ UNCHANGED producer_vars
    /\ UNCHANGED gui_vars
    /\ UNCHANGED ocr_vars

\* tokio Sender::try_send on the bounded channel: fails when it is full.
TrySendOk(ch) == Len(ch) < ResultCapacity

\* A send failure propagated with ? instead of counted
ProcSendFatal ==
    /\ pc = "send"
    /\ send_attempts' = send_attempts + 1
    /\ IF TrySendOk(processed_tx) /\ gui_running
         THEN /\ processed_tx' = Append(processed_tx,
                                        [kind |-> "ProcessedFrame", id |-> frame.bgr_buffer.id,
                                        analysis |-> analysis])
              /\ pc' = "recv"
              /\ UNCHANGED run_result
         ELSE /\ pc' = "done"
              /\ run_result' = "err"
              /\ UNCHANGED processed_tx
    /\ UNCHANGED <<frame_rx, frame_rx_content, lock, frame, cv_mat, dropped_count, send_failed,
                   dropped_frames, frame_count, processed_count,
                   last_signal, signals_true, dropped_sum, last_analyzed>>
    /\ UNCHANGED analysis
    /\ UNCHANGED producer_vars
    /\ UNCHANGED gui_vars
    /\ UNCHANGED ocr_vars

\* A blocking send in place of try_send: waits for room in the channel
ProcSendBlocking ==
    /\ pc = "send"
    /\ TrySendOk(processed_tx) /\ gui_running
    /\ send_attempts' = send_attempts + 1
    /\ processed_tx' = Append(processed_tx,
                              [kind |-> "ProcessedFrame", id |-> frame.bgr_buffer.id,
                                        analysis |-> analysis])
    /\ pc' = "recv"
    /\ UNCHANGED <<frame_rx, frame_rx_content, lock, run_result, frame, cv_mat,
                   dropped_count, send_failed, dropped_frames, frame_count, processed_count,
                   last_signal, signals_true, dropped_sum, last_analyzed>>
    /\ UNCHANGED analysis
    /\ UNCHANGED producer_vars
    /\ UNCHANGED gui_vars
    /\ UNCHANGED ocr_vars

\* A send on a closed channel that ends the loop
ProcSendStopsWhenClosed ==
    /\ pc = "send"
    /\ send_attempts' = send_attempts + 1
    /\ IF TrySendOk(processed_tx) /\ gui_running
         THEN /\ processed_tx' = Append(processed_tx,
                                        [kind |-> "ProcessedFrame", id |-> frame.bgr_buffer.id,
                                        analysis |-> analysis])
              /\ pc' = "recv"
              /\ UNCHANGED <<dropped_count, send_failed, run_result>>
         ELSE /\ dropped_count' = dropped_count + 1
              /\ send_failed' = send_failed + 1
              /\ pc' = IF gui_running THEN "recv" ELSE "done"
              /\ run_result' = IF gui_running THEN run_result ELSE "ok"
              /\ UNCHANGED processed_tx
    /\ UNCHANGED <<frame_rx, frame_rx_content, lock, frame, cv_mat,
                   dropped_frames, frame_count, processed_count,
                   last_signal, signals_true, dropped_sum, last_analyzed>>
    /\ UNCHANGED analysis
    /\ UNCHANGED producer_vars
    /\ UNCHANGED gui_vars
    /\ UNCHANGED ocr_vars

\* A failed send that is not counted as a drop
ProcSendUncounted ==
    /\ pc = "send"
    /\ send_attempts' = send_attempts + 1
    /\ IF TrySendOk(processed_tx) /\ gui_running
         THEN /\ processed_tx' = Append(processed_tx,
                                        [kind |-> "ProcessedFrame", id |-> frame.bgr_buffer.id,
                                        analysis |-> analysis])
              /\ UNCHANGED <<dropped_count, send_failed>>
         ELSE /\ UNCHANGED dropped_count
              /\ send_failed' = send_failed + 1
              /\ UNCHANGED processed_tx
    /\ pc' = "recv"
    /\ UNCHANGED <<frame_rx, frame_rx_content, lock, run_result, frame, cv_mat,
                   dropped_frames, frame_count, processed_count,
                   last_signal, signals_true, dropped_sum, last_analyzed>>
    /\ UNCHANGED analysis
    /\ UNCHANGED producer_vars
    /\ UNCHANGED gui_vars
    /\ UNCHANGED ocr_vars

\* A result that found the channel full offered again
ProcSendRetry ==
    /\ pc = "send"
    /\ send_attempts' = send_attempts + 1
    /\ IF TrySendOk(processed_tx) /\ gui_running
         THEN /\ processed_tx' = Append(processed_tx,
                                        [kind |-> "ProcessedFrame", id |-> frame.bgr_buffer.id,
                                        analysis |-> analysis])
              /\ pc' = "recv"
              /\ UNCHANGED <<dropped_count, send_failed>>
         ELSE /\ dropped_count' = dropped_count + 1
              /\ send_failed' = send_failed + 1
              /\ pc' = "send"
              /\ UNCHANGED processed_tx
    /\ UNCHANGED <<frame_rx, frame_rx_content, lock, run_result, frame, cv_mat,
                   dropped_frames, frame_count, processed_count,
                   last_signal, signals_true, dropped_sum, last_analyzed>>
    /\ UNCHANGED analysis
    /\ UNCHANGED producer_vars
    /\ UNCHANGED gui_vars
    /\ UNCHANGED ocr_vars

\* if let Err(_) = processed_tx.try_send(GuiCommand::ProcessedFrame(..)) { dropped_count += 1 }
ProcSend ==
    /\ pc = "send"
    /\ send_attempts' = send_attempts + 1
    /\ IF TrySendOk(processed_tx) /\ gui_running
         THEN /\ processed_tx' = Append(processed_tx,
                                        [kind |-> "ProcessedFrame", id |-> frame.bgr_buffer.id,
                                        analysis |-> analysis])
              /\ UNCHANGED <<dropped_count, send_failed>>
         ELSE /\ dropped_count' = dropped_count + 1
              /\ send_failed' = send_failed + 1
              /\ UNCHANGED processed_tx
    /\ pc' = "recv"
    /\ UNCHANGED <<frame_rx, frame_rx_content, lock, run_result, frame, cv_mat,
                   dropped_frames, frame_count, processed_count,
                   last_signal, signals_true, dropped_sum, last_analyzed>>
    /\ UNCHANGED analysis
    /\ UNCHANGED producer_vars
    /\ UNCHANGED gui_vars
    /\ UNCHANGED ocr_vars

\* --------------------------------------------------------------------- GUI
\* A receive loop that asks the main loop to quit and goes on receiving
GuiRecvAfterQuit ==
    /\ processed_tx # <<>>
    /\ processed_tx' = Tail(processed_tx)
    /\ IF Head(processed_tx).kind = "Quit"
         THEN /\ gui_running' = FALSE
              /\ UNCHANGED applied_count
         ELSE /\ applied_count' = applied_count + 1
              /\ UNCHANGED gui_running
    /\ UNCHANGED quit_clicked
    /\ UNCHANGED <<frame_rx, frame_rx_content, lock>>
    /\ UNCHANGED processor_vars
    /\ UNCHANGED producer_vars
    /\ UNCHANGED ocr_vars

\* while let Some(gui_command) = gtk_receiver.recv().await { match gui_command { .. } }
\* Quit stops the main loop and leaves the receive loop, which drops the
\* receiver and whatever is still queued.
GuiRecv ==
    /\ gui_running
    /\ processed_tx # <<>>
    /\ IF Head(processed_tx).kind = "Quit"
         THEN /\ gui_running' = FALSE
              /\ processed_tx' = <<>>
              /\ UNCHANGED applied_count
         ELSE /\ processed_tx' = Tail(processed_tx)
              /\ applied_count' = applied_count + 1
              /\ UNCHANGED gui_running
    /\ UNCHANGED quit_clicked
    /\ UNCHANGED <<frame_rx, frame_rx_content, lock>>
    /\ UNCHANGED processor_vars
    /\ UNCHANGED producer_vars
    /\ UNCHANGED ocr_vars

\* quit_but.connect_clicked: let _ = sender.try_send(GuiCommand::Quit)
QuitClicked ==
    /\ gui_running
    /\ ~quit_clicked
    /\ quit_clicked' = TRUE
    /\ IF TrySendOk(processed_tx)
         THEN processed_tx' = Append(processed_tx,
                                     [kind |-> "Quit", id |-> 0, analysis |-> NoAnalysis])
         ELSE UNCHANGED processed_tx
    /\ UNCHANGED <<gui_running, applied_count>>
    /\ UNCHANGED <<frame_rx, frame_rx_content, lock>>
    /\ UNCHANGED processor_vars
    /\ UNCHANGED producer_vars
    /\ UNCHANGED ocr_vars

\* ----------------------------------------------------------- specification
Processor ==
    \/ ProcRecv
    \/ ProcLock
    \/ ProcCheck
    \/ ProcResetCopy
    \/ ProcUnlock
    \/ ProcBuildMat
    \/ ProcCrop
    \/ ProcAnalyze
    \/ ProcSend

Next ==
    \/ \E b \in Buffers : ProducerWrite(b)
    \/ ProducerSignal
    \/ Stop
    \/ DropSenders
    \/ Processor
    \/ GuiRecv

Spec == Init /\ [][Next]_vars

\* The processor runs on its own thread: it is not starved forever.
FairSpec == Spec /\ WF_vars(Processor)

\* The pipeline with a user who may click the quit button once. The processor
\* thread and the GUI's receive loop are both scheduled.
GuiNext ==
    \/ Next
    \/ QuitClicked

GuiSpec == Init /\ [][GuiNext]_vars /\ WF_vars(Processor) /\ WF_vars(GuiRecv)

\* ------------------------------------------------- matcher specification
\* One call of recognize_digits on one region, and the same call in a second
\* engine instance whose HashMap may yield the templates in another order.

\* Template symbols, peak positions and peak scores of the small regions.
TemplateSymbols == {"3", "8"}
PeakXs == {0, 9, 10}
PeakScores == {65, 72, 95}
Peaks == [x : PeakXs, score : PeakScores]

\* Template symbols of the regions with well separated peaks, left to right.
SeparatedSymbols == <<"1", "2", "/", "5", "6", "7", "8", "9", "0", "3", "4">>
SeparatedScores == {72, 90}

\* The orders in which a HashMap may yield the keys S.
IterationOrders(S) ==
    {o \in [1..Cardinality(S) -> S] : \A i, j \in DOMAIN o : i # j => o[i] # o[j]}

\* A region with at most MaxMatches peaks of the templates '3' and '8'.
SmallRegionInit ==
    \E a \in 0..MaxMatches :
      \E b \in 0..(MaxMatches - a) :
        \E p3 \in [1..a -> Peaks] :
          \E p8 \in [1..b -> Peaks] :
            /\ found = [t \in TemplateSymbols |-> IF t = "3" THEN p3 ELSE p8]
            /\ template_order \in IterationOrders(TemplateSymbols)
            /\ template_order_2 \in IterationOrders(TemplateSymbols)

\* A region with k peaks of k different templates, one every 12 px, all of
\* one score.
SeparatedRegionInit ==
    \E k \in 1..MaxSeparated :
      \E score \in SeparatedScores :
        LET used == {SeparatedSymbols[i] : i \in 1..k}
            position(t) == CHOOSE i \in 1..k : SeparatedSymbols[i] = t
            ascending == [i \in 1..k |-> SeparatedSymbols[i]]
            descending == [i \in 1..k |-> SeparatedSymbols[k + 1 - i]]
        IN /\ found = [t \in used |->
                         <<[x |-> 12 * (position(t) - 1), score |-> score]>>]
           /\ template_order \in {ascending, descending}
           /\ template_order_2 \in {ascending, descending}

MatcherInit ==
    /\ PipelineInit
    /\ SideIdle
    /\ EngineIdle
    /\ FallbackIdle
    /\ AnalyzerIdle
    /\ (SmallRegionInit \/ SeparatedRegionInit)
    /\ matcher_pc = "ready"
    /\ filtered_matches = <<>>
    /\ recognized = <<>>
    /\ recognized_2 = <<>>

\* The candidates of the region, as recognize_digits hands them to
\* filter_overlapping_matches.
Candidates == SortByX(CollectMatches(template_order, found))

\* recognize_digits in both engine instances
RunMatcher ==
    /\ matcher_pc = "ready"
    /\ matcher_pc' = "done"
    /\ filtered_matches' = FilterOverlappingMatches(Candidates)
    /\ recognized' = RecognizeDigits(template_order, found)
    /\ recognized_2' = RecognizeDigits(template_order_2, found)
    /\ UNCHANGED <<found, template_order, template_order_2>>
    /\ UNCHANGED <<pipeline_vars, engine_vars, fallback_vars, analyzer_vars, side_vars>>

MatcherNext == RunMatcher

MatcherSpec == MatcherInit /\ [][MatcherNext]_vars

\* ------------------------------------------------- engine specification
\* One call of OcrEngineWrapper::recognize_text on n regions.

Engines == {"Paddle", "Onnx", "OnnxParallel", "TemplateMatching"}

\* Texts and scores a neural backend may return for a region.
BackendTexts ==
    { <<>>,
      <<"4">>,
      <<"2", "0", "0", "/", "2", "0", "0">>,
      <<"1", "2", "3", "4", "5", "6", "7", "8">>,
      <<"4", "x">> }
BackendScores == {40, 50, 60}
BackendFailed == [ok |-> FALSE, text |-> <<>>, confidence |-> [num |-> 0, den |-> 1]]
NeuralResults ==
    {[ok |-> TRUE, text |-> t, confidence |-> [num |-> c, den |-> 1]] :
        t \in BackendTexts, c \in BackendScores} \cup {BackendFailed}

\* Regions for the template engine: templates '3', '/' and 'x', each with no
\* peak or one peak, '3' at x = 0, '/' at x = 10 and 'x' at x = 20.
EngineTemplates == <<"3", "/", "x">>
EnginePeaks ==
    LET symbols == {EngineTemplates[i] : i \in DOMAIN EngineTemplates}
        position(t) == CHOOSE i \in DOMAIN EngineTemplates : EngineTemplates[i] = t
    IN {f \in [symbols -> {<<>>} \cup {<<[x |-> x, score |-> c]>> :
                                         x \in {0, 10, 20}, c \in {72, 95}}] :
          \A t \in symbols :
             f[t] # <<>> => f[t][1].x = 10 * (position(t) - 1)}
TemplateResults ==
    {[ok |-> TRUE,
      text |-> RecognizeDigits(EngineTemplates, f).text,
      confidence |-> RecognizeDigits(EngineTemplates, f).confidence] :
        f \in EnginePeaks} \cup {BackendFailed}

EngineInit ==
    /\ PipelineInit
    /\ SideIdle
    /\ MatcherIdle
    /\ FallbackIdle
    /\ AnalyzerIdle
    /\ engine \in Engines
    /\ fallback_engine \in (IF engine = "TemplateMatching" THEN BOOLEAN ELSE {FALSE})
    /\ \E n \in 1..MaxRegions :
          /\ backend \in [1..n -> IF engine = "TemplateMatching"
                                    THEN TemplateResults ELSE NeuralResults]
          /\ pending = 1..n
          /\ detected_texts = [i \in 1..n |-> <<>>]
    /\ engine_pc = "call"

\* The call returns Err when a backend call it propagates with ? failed.
BackendError == \E i \in DOMAIN backend : ~backend[i].ok

\* OcrEngineWrapper::Paddle => PaddleOcrEngine::recognize_text
PaddleRecognizeText ==
    /\ engine_pc = "call"
    /\ engine = "Paddle"
    /\ IF BackendError
         THEN engine_pc' = "err" /\ UNCHANGED detected_texts
         ELSE /\ engine_pc' = "ok"
              /\ detected_texts' = [i \in DOMAIN backend |-> PaddleEntry(backend[i])]
    /\ pending' = {}
    /\ UNCHANGED <<engine, fallback_engine, backend>>
    /\ UNCHANGED <<pipeline_vars, matcher_vars, fallback_vars, analyzer_vars, side_vars>>

\* OcrEngineWrapper::Onnx => OnnxOcrEngine::recognize_text
OnnxRecognizeText ==
    /\ engine_pc = "call"
    /\ engine = "Onnx"
    /\ IF BackendError
         THEN engine_pc' = "err" /\ UNCHANGED detected_texts
         ELSE /\ engine_pc' = "ok"
              /\ detected_texts' = [i \in DOMAIN backend |-> OnnxEntry(backend[i])]
    /\ pending' = {}
    /\ UNCHANGED <<engine, fallback_engine, backend>>
    /\ UNCHANGED <<pipeline_vars, matcher_vars, fallback_vars, analyzer_vars, side_vars>>

\* OcrEngineWrapper::TemplateMatching => TemplateMatchingOcrEngine::recognize_text
TemplateMatchingRecognizeText ==
    /\ engine_pc = "call"
    /\ engine = "TemplateMatching"
    /\ IF BackendError
         THEN engine_pc' = "err" /\ UNCHANGED detected_texts
         ELSE /\ engine_pc' = "ok"
              /\ detected_texts' =
                    [i \in DOMAIN backend |->
                        TemplateMatchingEntry(fallback_engine, backend[i])]
    /\ pending' = {}
    /\ UNCHANGED <<engine, fallback_engine, backend>>
    /\ UNCHANGED <<pipeline_vars, matcher_vars, fallback_vars, analyzer_vars, side_vars>>

\* a worker that stores its result in the next free slot
ParallelWorkerByCompletion(i) ==
    /\ engine_pc = "call"
    /\ engine = "OnnxParallel"
    /\ i \in pending
    /\ pending' = pending \ {i}
    /\ detected_texts' =
          IF OnnxParallelAccepts(backend[i])
            THEN [detected_texts EXCEPT
                    ![Len(detected_texts) - Cardinality(pending) + 1] =
                        Str8From(backend[i].text)]
            ELSE detected_texts
    /\ UNCHANGED <<engine, fallback_engine, backend, engine_pc>>
    /\ UNCHANGED <<pipeline_vars, matcher_vars, fallback_vars, analyzer_vars, side_vars>>

\* OnnxParallelOcrEngine::recognize_text: the closure of for_each for the
\* pair (entry i, region i); the pairs run in any order
ParallelWorker(i) ==
    /\ engine_pc = "call"
    /\ engine = "OnnxParallel"
    /\ i \in pending
    /\ pending' = pending \ {i}
    /\ detected_texts' =
          IF OnnxParallelAccepts(backend[i])
            THEN [detected_texts EXCEPT ![i] = Str8From(backend[i].text)]
            ELSE detected_texts
    /\ UNCHANGED <<engine, fallback_engine, backend, engine_pc>>
    /\ UNCHANGED <<pipeline_vars, matcher_vars, fallback_vars, analyzer_vars, side_vars>>

\* OnnxParallelOcrEngine::recognize_text: for_each has returned
ParallelJoin ==
    /\ engine_pc = "call"
    /\ engine = "OnnxParallel"
    /\ pending = {}
    /\ engine_pc' = "ok"
    /\ UNCHANGED <<engine, fallback_engine, backend, pending, detected_texts>>
    /\ UNCHANGED <<pipeline_vars, matcher_vars, fallback_vars, analyzer_vars, side_vars>>

EngineNext ==
    \/ PaddleRecognizeText
    \/ OnnxRecognizeText
    \/ TemplateMatchingRecognizeText
    \/ \E i \in 1..MaxRegions : ParallelWorker(i)
    \/ ParallelJoin

EngineSpec == EngineInit /\ [][EngineNext]_vars

\* ----------------------------------------------- fallback specification
\* One call of recognize_text on a primary engine combined with a fallback
\* engine: FallbackOcrEngine wrapping a template engine, or a template engine
\* built by with_fallback.

Compositions == {"FallbackOcrEngine", "TemplateMatchingWithFallback"}

\* What recognize_digits of the primary returns for a region
PrimaryRegions ==
    {[ok |-> TRUE, text |-> t, confidence |-> [num |-> c, den |-> 1]] :
        t \in {<<"4">>, <<"4", "x">>}, c \in {70, 80}}
    \cup {[ok |-> TRUE, text |-> <<>>, confidence |-> [num |-> 0, den |-> 1]],
          BackendFailed}

\* What the fallback engine returns for the call: Err, or a text per region
FallbackReturns(n) ==
    {[ok |-> TRUE, texts |-> ts] : ts \in [1..n -> {<<>>, <<"7">>}]}
    \cup {[ok |-> FALSE, texts |-> [i \in 1..n |-> <<>>]]}

FallbackInit ==
    /\ PipelineInit
    /\ SideIdle
    /\ EngineIdle
    /\ MatcherIdle
    /\ AnalyzerIdle
    /\ composition \in Compositions
    /\ \E n \in 1..MaxRegions :
          /\ primary \in [1..n -> PrimaryRegions]
          /\ fallback_results \in FallbackReturns(n)
          /\ final_results = [i \in 1..n |-> <<>>]
    /\ fallback_invoked = FALSE
    /\ fallback_pc = "call"

\* self.primary.recognize_text(img, regions): the template engine without a
\* fallback of its own
PrimaryResults == [i \in DOMAIN primary |-> TemplateMatchingEntry(FALSE, primary[i])]

\* needs_fallback: the indices of the empty strings
NeedsFallback(results) == {i \in DOMAIN results : results[i] = <<>>}

\* every region for which the fallback has a text takes it
MergeFallbackAll(results, fallback, needs_fallback) ==
    [i \in DOMAIN results |->
        IF fallback[i] # <<>> THEN fallback[i] ELSE results[i]]

\* for i in needs_fallback { if !fallback_results[i].is_empty() { final_results[i] = .. } }
MergeFallback(results, fallback, needs_fallback) ==
    [i \in DOMAIN results |->
        IF i \in needs_fallback /\ fallback[i] # <<>> THEN fallback[i] ELSE results[i]]

\* FallbackOcrEngine::recognize_text up to the test of needs_fallback
FallbackPrimary ==
    /\ fallback_pc = "call"
    /\ composition = "FallbackOcrEngine"
    /\ IF \E i \in DOMAIN primary : ~primary[i].ok
         THEN fallback_pc' = "err" /\ UNCHANGED final_results
         ELSE /\ final_results' = PrimaryResults
              /\ fallback_pc' = IF NeedsFallback(PrimaryResults) = {}
                                  THEN "ok" ELSE "fallback"
    /\ UNCHANGED <<composition, primary, fallback_results, fallback_invoked>>
    /\ UNCHANGED <<pipeline_vars, engine_vars, matcher_vars, analyzer_vars, side_vars>>

\* FallbackOcrEngine::recognize_text: the call of the fallback and the merge
FallbackCall ==
    /\ fallback_pc = "fallback"
    /\ fallback_invoked' = TRUE
    /\ IF fallback_results.ok
         THEN /\ final_results' = MergeFallback(final_results, fallback_results.texts,
                                                NeedsFallback(final_results))
              /\ fallback_pc' = "ok"
         ELSE fallback_pc' = "err" /\ UNCHANGED final_results
    /\ UNCHANGED <<composition, primary, fallback_results>>
    /\ UNCHANGED <<pipeline_vars, engine_vars, matcher_vars, analyzer_vars, side_vars>>

\* TemplateMatchingOcrEngine::recognize_text with fallback_engine = Some(..):
\* an unread region is left at its default and the fallback is not called
TemplateMatchingWithFallback ==
    /\ fallback_pc = "call"
    /\ composition = "TemplateMatchingWithFallback"
    /\ IF \E i \in DOMAIN primary : ~primary[i].ok
         THEN fallback_pc' = "err" /\ UNCHANGED final_results
         ELSE /\ final_results' =
                    [i \in DOMAIN primary |-> TemplateMatchingEntry(TRUE, primary[i])]
              /\ fallback_pc' = "ok"
    /\ UNCHANGED <<composition, primary, fallback_results, fallback_invoked>>
    /\ UNCHANGED <<pipeline_vars, engine_vars, matcher_vars, analyzer_vars, side_vars>>

FallbackNext ==
    \/ FallbackPrimary
    \/ FallbackCall
    \/ TemplateMatchingWithFallback

FallbackSpec == FallbackInit /\ [][FallbackNext]_vars

\* ----------------------------------------------- analyzer specification
\* One call of ImageAnalyzerInner::analyze on a three-channel Mat.

Max(a, b) == IF a > b THEN a ELSE b

\* detect_icon: the search rectangle after "Ensure bounds"
SearchRect(mat) ==
    LET search_x == Max(VILLAGER_ICON_AREA.x, 0)
        search_y == Max((mat.rows - AREA_HEIGHT) + VILLAGER_ICON_AREA.y, 0)
    IN [x |-> search_x,
        y |-> search_y,
        width |-> Min(VILLAGER_ICON_AREA.width, mat.cols - search_x),
        height |-> Min(VILLAGER_ICON_AREA.height, mat.rows - search_y)]

\* Mat::roi and imgproc::match_template: OpenCV rejects an empty image and a
\* template larger than the image; otherwise max_val is compared with 0.6
MatchIcon(rect, template, max_val) ==
    IF \/ rect.width <= 0 \/ rect.height <= 0
       \/ template.cols > rect.width \/ template.rows > rect.height
      THEN [ok |-> FALSE, present |-> FALSE, matched |-> TRUE]
      ELSE [ok |-> TRUE, present |-> max_val >= ICON_THRESHOLD, matched |-> TRUE]

\* detect_icon without the test of the clamped rectangle
DetectIconUnchecked(mat, template, max_val) ==
    MatchIcon(SearchRect(mat), template, max_val)

\* detect_icon(img, detect_icon): Ok(bool) or Err, and whether match_template ran
DetectIcon(mat, template, max_val) ==
    IF SearchRect(mat).width <= 0 \/ SearchRect(mat).height <= 0
      THEN [ok |-> TRUE, present |-> FALSE, matched |-> FALSE]
      ELSE MatchIcon(SearchRect(mat), template, max_val)

ImageRows == {0, 40, 486, 500}
ImageCols == {0, 100, 267}
IconTemplates == {[rows |-> 30, cols |-> 30], [rows |-> 90, cols |-> 90]}
IconScores == {50, 60, 70}

AnalyzerInit ==
    /\ PipelineInit
    /\ SideIdle
    /\ EngineIdle
    /\ MatcherIdle
    /\ FallbackIdle
    /\ img \in [rows : ImageRows, cols : ImageCols]
    /\ villager_icon_template \in IconTemplates
    /\ icon_score \in IconScores
    /\ elapsed \in [1..3 -> 0..MaxTick]
    /\ analyze_pc = "icon"
    /\ has_villager_icon = FALSE
    /\ template_matched = FALSE
    /\ detect_villager_time = 0
    /\ convert_color_time = 0
    /\ ocr_time = 0

\* let has_villager_icon = self.detect_icon(&cv_mat, &self.villager_icon_template)?;
\* let detect_villager_time = now.elapsed();
AnalyzeDetectIcon ==
    /\ analyze_pc = "icon"
    /\ LET r == DetectIcon(img, villager_icon_template, icon_score)
       IN /\ template_matched' = r.matched
          /\ IF r.ok
               THEN /\ has_villager_icon' = r.present
                    /\ detect_villager_time' = elapsed[1]
                    /\ analyze_pc' = "convert"
               ELSE /\ analyze_pc' = "err"
                    /\ UNCHANGED <<has_villager_icon, detect_villager_time>>
    /\ UNCHANGED <<img, villager_icon_template, icon_score, elapsed,
                   convert_color_time, ocr_time>>
    /\ UNCHANGED <<pipeline_vars, engine_vars, matcher_vars, fallback_vars, side_vars>>

\* The colour conversions (cvt_color fails on an empty Mat), then
\* let convert_color_time = now.elapsed() - detect_villager_time;
\* Duration's subtraction panics when the result would be negative.
AnalyzeConvertColor ==
    /\ analyze_pc = "convert"
    /\ IF img.rows = 0 \/ img.cols = 0
         THEN analyze_pc' = "err" /\ UNCHANGED convert_color_time
         ELSE IF elapsed[2] < detect_villager_time
                THEN analyze_pc' = "panic" /\ UNCHANGED convert_color_time
                ELSE /\ convert_color_time' = elapsed[2] - detect_villager_time
                     /\ analyze_pc' = "ocr"
    /\ UNCHANGED <<img, villager_icon_template, icon_score, elapsed, has_villager_icon,
                   template_matched, detect_villager_time, ocr_time>>
    /\ UNCHANGED <<pipeline_vars, engine_vars, matcher_vars, fallback_vars, side_vars>>

\* The recognition (its error is returned with ?), then
\* let ocr_time = now.elapsed() - convert_color_time - detect_villager_time;
AnalyzeOcr ==
    /\ analyze_pc = "ocr"
    /\ \E ocr_ok \in BOOLEAN :
         IF ~ocr_ok
           THEN analyze_pc' = "err" /\ UNCHANGED ocr_time
           ELSE IF \/ elapsed[3] < convert_color_time
                   \/ elapsed[3] - convert_color_time < detect_villager_time
                  THEN analyze_pc' = "panic" /\ UNCHANGED ocr_time
                  ELSE /\ ocr_time' = elapsed[3] - convert_color_time - detect_villager_time
                       /\ analyze_pc' = "ok"
    /\ UNCHANGED <<img, villager_icon_template, icon_score, elapsed, has_villager_icon,
                   template_matched, detect_villager_time, convert_color_time>>
    /\ UNCHANGED <<pipeline_vars, engine_vars, matcher_vars, fallback_vars, side_vars>>

AnalyzerNext ==
    \/ AnalyzeDetectIcon
    \/ AnalyzeConvertColor
    \/ AnalyzeOcr

AnalyzerSpec == AnalyzerInit /\ [][AnalyzerNext]_vars

\* ------------------------------------------------- region specification
\* The crop of one stat region out of the image handed to the recognition.

\* f32 as u32: a negative value becomes 0
AsU32(n) == IF n < 0 THEN 0 ELSE n

\* a region one pixel larger on every side
StatRegionPadded(i, image_height) ==
    [x |-> AsU32(AOE4_STATS_POS[i].x - 1),
     y |-> AsU32(image_height + AOE4_STATS_POS[i].y - 1),
     width |-> STAT_RECT.width + 2,
     height |-> STAT_RECT.height + 2]

\* (stat_pos.x as u32, (image_height + stat_pos.y) as u32, STAT_RECT.width, STAT_RECT.height)
StatRegion(i, image_height) ==
    [x |-> AsU32(AOE4_STATS_POS[i].x),
     y |-> AsU32(image_height + AOE4_STATS_POS[i].y),
     width |-> STAT_RECT.width,
     height |-> STAT_RECT.height]

\* GenericImageView::view panics unless the rectangle is inside the image
ViewInside(image, r) ==
    /\ r.x + r.width <= image.width
    /\ r.y + r.height <= image.height

RegionImages == [width : {100, 250, 267, 300}, height : {40, 300, 455, 486, 600}]

RegionInit ==
    /\ PipelineInit
    /\ EngineIdle
    /\ MatcherIdle
    /\ FallbackIdle
    /\ AnalyzerIdle
    /\ LabelIdle
    /\ region_img \in RegionImages
    /\ region_index \in DOMAIN AOE4_STATS_POS
    /\ subview = [x |-> 0, y |-> 0, width |-> 0, height |-> 0]
    /\ region_pc = "crop"

\* img.view(x, y, STAT_RECT.width, STAT_RECT.height).to_image()
CropRegion ==
    /\ region_pc = "crop"
    /\ subview' = StatRegion(region_index, region_img.height)
    /\ region_pc' = IF ViewInside(region_img, StatRegion(region_index, region_img.height))
                      THEN "cropped" ELSE "panic"
    /\ UNCHANGED <<region_img, region_index>>
    /\ UNCHANGED <<pipeline_vars, engine_vars, matcher_vars, fallback_vars, analyzer_vars,
                   label_vars>>

RegionNext == CropRegion

RegionSpec == RegionInit /\ [][RegionNext]_vars

\* -------------------------------------------------- label specification
\* One call of OverlayWindow::update_image_from_processed_frame.

DigitChars == <<"0", "1", "2", "3", "4", "5", "6", "7", "8", "9">>
DigitValue(c) == (CHOOSE k \in DOMAIN DigitChars : DigitChars[k] = c) - 1

\* The decimal digits of n >= 0, as the recognition returns a number it read
RECURSIVE FormatI32(_)
FormatI32(n) ==
    IF n < 10 THEN <<DigitChars[n + 1]>>
    ELSE FormatI32(n \div 10) \o <<DigitChars[(n % 10) + 1]>>

\* str::split("/"): the parts between the slashes, at least one
RECURSIVE SplitSlash(_)
SplitSlash(text) ==
    IF \A k \in DOMAIN text : text[k] # "/" THEN <<text>>
    ELSE LET k == CHOOSE j \in DOMAIN text :
                      text[j] = "/" /\ \A h \in 1..(j - 1) : text[h] # "/"
         IN <<SubSeq(text, 1, k - 1)>> \o SplitSlash(SubSeq(text, k + 1, Len(text)))

\* parts.next().unwrap_or_default()
NextPart(parts, n) == IF n <= Len(parts) THEN parts[n] ELSE <<>>

RECURSIVE DigitsValue(_)
DigitsValue(digits) ==
    IF digits = <<>> THEN 0
    ELSE 10 * DigitsValue(SubSeq(digits, 1, Len(digits) - 1))
           + DigitValue(digits[Len(digits)])

\* str::parse::<i32>().unwrap_or_default(): an optional sign and at least one
\* digit, nothing else; 0 for everything else. A str8 is too short to overflow.
ParseI32OrDefault(text) ==
    LET signed == text # <<>> /\ text[1] \in {"+", "-"}
        digits == IF signed THEN Tail(text) ELSE text
    IN IF digits = <<>> \/ \E k \in DOMAIN digits : ~IsAsciiDigit(digits[k])
         THEN 0
         ELSE IF signed /\ text[1] = "-" THEN 0 - DigitsValue(digits)
              ELSE DigitsValue(digits)

\* the idle alert ranked above the housing alert
AlertLabelIdleFirst(texts, has_villager) ==
    LET parts == SplitSlash(texts[INDEX_POP + 1])
        current == ParseI32OrDefault(NextPart(parts, 1))
        total == ParseI32OrDefault(NextPart(parts, 2))
    IN IF ~(total > 0) THEN ""
       ELSE IF ParseI32OrDefault(texts[INDEX_IDLE + 1]) > 0 THEN "Idle!"
       ELSE IF current + 2 >= total THEN "Haus!"
       ELSE IF ~has_villager THEN "Villager!"
       ELSE ""

\* update_image_from_processed_frame: the text set on centered_label
AlertLabel(texts, has_villager) ==
    LET parts == SplitSlash(texts[INDEX_POP + 1])
        current == ParseI32OrDefault(NextPart(parts, 1))
        total == ParseI32OrDefault(NextPart(parts, 2))
        is_useful == total > 0
        is_pop == current + 2 >= total
        is_idle == ParseI32OrDefault(texts[INDEX_IDLE + 1]) > 0
    IN IF ~is_useful THEN ""
       ELSE IF is_pop THEN "Haus!"
       ELSE IF is_idle THEN "Idle!"
       ELSE IF ~has_villager THEN "Villager!"
       ELSE ""

\* What the screen shows: a population cur/total, or a population text
\* without a usable total; an idle count, read or not; the icon flag.
PopulationsShown ==
    [wellformed : {TRUE}, cur : {0, 7, 8, 9, 198}, total : {0, 10, 200},
     idle : {0, 2}, idle_read : BOOLEAN, has_villager : BOOLEAN, text : {<<>>}]
PopulationsUnread ==
    [wellformed : {FALSE}, cur : {0}, total : {0},
     idle : {0, 2}, idle_read : BOOLEAN, has_villager : BOOLEAN,
     text : {<<>>, <<"5">>, <<"5", "/">>, <<"5", "/", "/", "9">>, <<"5", "/", "x">>}]

\* detected_texts of the frame: the population and the idle count as str8
DetectedTextsOf(in) ==
    [i \in 1..Len(AOE4_STATS_POS) |->
        IF i = INDEX_POP + 1
          THEN IF in.wellformed
                 THEN Str8From(FormatI32(in.cur) \o <<"/">> \o FormatI32(in.total))
                 ELSE in.text
        ELSE IF i = INDEX_IDLE + 1 /\ in.idle_read THEN Str8From(FormatI32(in.idle))
        ELSE <<>>]

LabelInit ==
    /\ PipelineInit
    /\ EngineIdle
    /\ MatcherIdle
    /\ FallbackIdle
    /\ AnalyzerIdle
    /\ RegionIdle
    /\ label_input \in PopulationsShown \cup PopulationsUnread
    /\ shown_texts = DetectedTextsOf(label_input)
    /\ centered_label = "Waiting..."
    /\ label_pc = "update"

\* GuiCommand::ProcessedFrame(frame) => update_image_from_processed_frame(frame)
UpdateImageFromProcessedFrame ==
    /\ label_pc = "update"
    /\ centered_label' = AlertLabel(shown_texts, label_input.has_villager)
    /\ label_pc' = "done"
    /\ UNCHANGED <<label_input, shown_texts>>
    /\ UNCHANGED <<pipeline_vars, engine_vars, matcher_vars, fallback_vars, analyzer_vars,
                   region_vars>>

LabelNext == UpdateImageFromProcessedFrame

LabelSpec == LabelInit /\ [][LabelNext]_vars

\* ------------------------------------------------------------------ claims

\* C1: whenever the processor drains the slot and finds frames_written = w > 0,
\* it computes dropped_frames = w - 1, counts one received frame (frame_count
\* + 1), and its next step resets frames_written to 0, while it holds the lock.
C1_DrainAccounting ==
    /\ [][(pc = "check" /\ frame_rx_content.frames_written > 0 /\ pc' # pc) =>
            /\ dropped_frames' = frame_rx_content.frames_written - 1
            /\ frame_count' = frame_count + 1
            /\ pc' = "reset"
            /\ lock' = "processor"]_vars
    /\ [][(pc = "reset" /\ pc' # pc) =>
            /\ frame_rx_content'.frames_written = 0
            /\ pc' = "unlock"
            /\ lock' = "processor"]_vars

\* C1 witness: a drain that found three writes has reported two dropped frames
\* and reset the counter.
C1_Witness ==
    pc = "unlock" /\ dropped_frames = 2 /\ frame_rx_content.frames_written = 0

\* C2: whenever the processor is outside the critical section, every write is
\* accounted for exactly once: total writes = frames received + the dropped
\* counts reported by drains + the writes still counted in the slot.
C2_WritesAccounted ==
    lock # "processor" =>
        writes = frame_count + dropped_sum + frame_rx_content.frames_written

\* C2 witness: outside the critical section with received, dropped and pending
\* writes all present.
C2_Witness ==
    /\ lock = "free"
    /\ frame_count >= 1
    /\ dropped_sum >= 1
    /\ frame_rx_content.frames_written >= 1

\* C3: while the processor builds the Mat, crops, analyzes or sends, the slot
\* lock is free, and a producer that has a frame to write can write it.
C3_LockFreeWhileProcessing ==
    pc \in {"mat", "crop", "analyze", "send"} =>
        /\ lock = "free"
        /\ (senders_alive /\ ~signal_pending /\ writes < MaxWrites) =>
               ENABLED (\E b \in Buffers : ProducerWrite(b))

\* C3 witness: a write landed in the slot while the processor was analyzing
\* the frame of an earlier write.
C3_Witness ==
    /\ pc = "analyze"
    /\ lock = "free"
    /\ frame_rx_content.frames_written >= 1
    /\ writes > frame.bgr_buffer.id

\* C4: the frame the processor holds after a drain is the frame of the most
\* recent write at the time of the drain: its bytes are those of write number
\* writes - frames_written, and it equals the last written frame (width,
\* height, stride, bytes) as long as nothing was written since.
C4_LatestFrame ==
    pc \in {"unlock", "mat", "crop", "analyze"} =>
        /\ frame.bgr_buffer.id = writes - frame_rx_content.frames_written
        /\ frame_rx_content.frames_written = 0 => frame = last_write
        /\ pc = "analyze" => cv_mat.id = frame.bgr_buffer.id

\* C4 witness: three writes, one drain: the third frame is analyzed and two
\* frames are reported dropped.
C4_Witness ==
    /\ pc = "analyze"
    /\ frame_count = 1
    /\ frame.bgr_buffer.id = 3
    /\ dropped_frames = 2
    /\ frame = last_write

\* C5: every frame handed to analysis was written later than every frame
\* analyzed before it: no write is analyzed twice and none out of order.
C5_AnalyzedInWriteOrder ==
    pc = "analyze" => cv_mat.id > last_analyzed

\* C5 witness: a second frame reaches analysis after a control signal that
\* found no new write was consumed.
C5_Witness ==
    /\ pc = "analyze"
    /\ last_analyzed >= 1
    /\ signals_true > frame_count

\* C6: a drain that finds frames_written = 0 changes nothing: the slot, the
\* local frame and the counters stay as they are, no analysis runs, nothing is
\* sent, and the processor returns to waiting for a signal.
C6_EmptyDrainNoAction ==
    [][(pc = "check" /\ frame_rx_content.frames_written = 0) =>
         /\ pc' \in {"check", "recv"}
         /\ UNCHANGED <<frame_rx_content, frame, cv_mat, frame_count, processed_count,
                        dropped_count, dropped_frames, last_analyzed, send_failed>>
         /\ Len(processed_tx') <= Len(processed_tx)]_vars

\* C6 witness: two signals consumed, one frame received: the second drain
\* found nothing and the processor is back at recv.
C6_Witness ==
    /\ pc = "recv"
    /\ run_result = "running"
    /\ signals_true = 2
    /\ frame_count = 1
    /\ writes = 2
    /\ frame_rx_content.frames_written = 0

\* C7: when the result channel is full as the processor sends a result, the
\* send does not block: the result is discarded, dropped_count grows by
\* exactly 1, run neither fails nor panics, and the loop returns to recv.
C7_FullChannelDrops ==
    [][(pc = "send" /\ Len(processed_tx) = ResultCapacity /\ pc' # pc) =>
         /\ dropped_count' = dropped_count + 1
         /\ processed_tx' = processed_tx
         /\ run_result' = "running"
         /\ pc' = "recv"
         /\ UNCHANGED <<frame_count, processed_count>>]_vars

\* C7 witness: a third result met a full channel and was dropped.
C7_Witness ==
    /\ pc = "recv"
    /\ send_failed = 1
    /\ processed_count = 3
    /\ Len(processed_tx) = ResultCapacity

\* C8: once the processor has consumed has_data = false, run has returned Ok,
\* and from then on no frame is drained, nothing is analyzed, nothing is sent
\* and no queued control signal is consumed.
C8_StopIsFinal ==
    /\ [](last_signal = "false" => (pc = "done" /\ run_result = "ok"))
    /\ [][last_signal = "false" =>
            /\ UNCHANGED <<pc, run_result, frame, frame_count, processed_count,
                           dropped_count, last_analyzed, send_failed, signals_true,
                           last_signal>>
            /\ frame_rx' = frame_rx
            /\ Len(processed_tx') <= Len(processed_tx)]_vars

\* C8 witness: the processor has stopped with a signal still queued behind the
\* stop signal and an unread frame in the slot.
C8_Witness ==
    /\ last_signal = "false"
    /\ frame_rx # <<>>
    /\ frame_rx_content.frames_written >= 1

\* C9: once a stop signal is on the control channel the processor eventually
\* leaves the loop; it waits neither for room in the result channel nor
\* for the consumer of results.
C9_StopTerminates ==
    (\E i \in DOMAIN frame_rx : frame_rx[i] = FALSE) ~> (pc = "done")

\* C9 witness: the processor ended on a stop signal after it had met a full
\* result channel.
C9_Witness ==
    /\ pc = "done"
    /\ last_signal = "false"
    /\ send_failed >= 1
    /\ Len(processed_tx) = ResultCapacity

\* C10: a frame that is smaller than the working area, or whose buffer is
\* shorter than its claimed dimensions, is skipped: it never reaches analysis
\* and run neither panics nor returns because of it.
C10_BadFrameSkipped ==
    LET too_small == frame.width < AREA_WIDTH \/ frame.height < AREA_HEIGHT
        too_short == frame.bgr_buffer.len < frame.height * frame.width * BytesPerPixel
    IN (too_small \/ too_short) =>
           /\ pc # "analyze"
           /\ run_result \in {"running", "ok"}

\* C11: whatever the engine variant and the input, every string of a returned
\* array is empty or consists of ASCII digits and '/' only.
C11_OnlyDigitsAndSlash ==
    engine_pc = "ok" =>
        \A i \in DOMAIN detected_texts :
           \A k \in DOMAIN detected_texts[i] :
              detected_texts[i][k] \in
                 {"0", "1", "2", "3", "4", "5", "6", "7", "8", "9", "/"}

\* C11 witness: an engine returned an empty string for a region whose backend
\* text holds another character, next to a region it read.
C11_Witness ==
    /\ engine_pc = "ok"
    /\ \E i, j \in DOMAIN detected_texts :
          /\ backend[i].text # <<>>
          /\ \E k \in DOMAIN backend[i].text : backend[i].text[k] = "x"
          /\ detected_texts[i] = <<>>
          /\ detected_texts[j] # <<>>

C14_BelowMinConfidenceUnread ==
    LET valid(t) ==
            /\ t # <<>>
            /\ \A k \in DOMAIN t :
                  t[k] \in {"0", "1", "2", "3", "4", "5", "6", "7", "8", "9", "/"}
        confident(r) == r.confidence.num >= 75 * r.confidence.den
    IN (engine = "TemplateMatching" /\ engine_pc = "ok") =>
         \A i \in DOMAIN detected_texts :
            /\ detected_texts[i] # <<>> => valid(backend[i].text) /\ confident(backend[i])
            /\ ~confident(backend[i]) => detected_texts[i] = <<>>

\* C15: in the list of kept matches every two matches are at least 10 px
\* apart.
C15_KeptSeparated ==
    matcher_pc = "done" =>
        \A i, j \in DOMAIN filtered_matches :
            i # j => Abs(filtered_matches[i].x - filtered_matches[j].x) >= 10

\* C15 witness: candidates closer than 10 px went in and at least two matches
\* were kept.
C15_Witness ==
    /\ matcher_pc = "done"
    /\ Len(filtered_matches) >= 2
    /\ \E i, j \in DOMAIN Candidates :
           i # j /\ Abs(Candidates[i].x - Candidates[j].x) < 10

C17_LeftToRight ==
    matcher_pc = "done" =>
        /\ \A i, j \in DOMAIN filtered_matches :
              i < j => filtered_matches[i].x < filtered_matches[j].x
        /\ Len(recognized.text) <= Len(filtered_matches)
        /\ \A k \in DOMAIN recognized.text :
              recognized.text[k] = filtered_matches[k].digit

\* C17 witness: the string "83" was assembled from a lower-scoring '8' on the
\* left and a higher-scoring '3' on the right.
C17_Witness ==
    /\ matcher_pc = "done"
    /\ recognized.text = <<"8", "3">>
    /\ Len(filtered_matches) = 2
    /\ filtered_matches[1].confidence < filtered_matches[2].confidence

\* C18: when every candidate is at least 10 px from every other candidate,
\* none is suppressed, the returned string is the symbols of all candidates
\* from left to right and the returned confidence is the mean of their scores.
C18_SeparatedAllReturned ==
    (/\ matcher_pc = "done"
     /\ Candidates # <<>>
     /\ \A i, j \in DOMAIN Candidates :
           i # j => Abs(Candidates[i].x - Candidates[j].x) >= 10)
    => /\ filtered_matches = Candidates
       /\ recognized.text = [k \in 1..Len(Candidates) |-> Candidates[k].digit]
       /\ recognized.confidence.num * Len(Candidates)
            = SumConfidence(Candidates) * recognized.confidence.den

\* C19: the matcher run on the same region with the same templates and
\* thresholds returns the same string and the same confidence, whatever the
\* order in which the templates are iterated.
C19_OrderIndependent ==
    matcher_pc = "done" =>
        /\ recognized.text = recognized_2.text
        /\ recognized.confidence.num * recognized_2.confidence.den
             = recognized_2.confidence.num * recognized.confidence.den

\* C20: for k accepted matches the returned string holds exactly min(k, 8)
\* characters, the symbols of the min(k, 8) leftmost accepted matches.
C20_EightCharacters ==
    matcher_pc = "done" =>
        LET k == Len(filtered_matches)
            n == IF k < 8 THEN k ELSE 8
        IN recognized.text = [i \in 1..n |-> filtered_matches[i].digit]

\* C21: the returned confidence is the sum of the scores of the accepted
\* matches divided by their number; when no match is accepted the returned
\* text is empty and the confidence is 0.
C21_ConfidenceIsMean ==
    LET RECURSIVE total(_)
        total(ms) == IF ms = <<>> THEN 0 ELSE ms[1].confidence + total(Tail(ms))
    IN matcher_pc = "done" =>
         IF filtered_matches = <<>>
           THEN recognized.text = <<>> /\ recognized.confidence.num = 0
           ELSE recognized.confidence.num * Len(filtered_matches)
                  = total(filtered_matches) * recognized.confidence.den

\* C21 witness: a match of score 0.72 and a match of score 0.95 were accepted
\* and the returned confidence is 1.67 / 2.
C21_Witness ==
    /\ matcher_pc = "done"
    /\ Len(filtered_matches) = 2
    /\ filtered_matches[1].confidence = 72
    /\ filtered_matches[2].confidence = 95
    /\ recognized.confidence.num * 2 = 167 * recognized.confidence.den

\* C22: in the array a call with a fallback returns, every region the primary
\* read (its string is not empty) holds the primary's string, whatever the
\* fallback returned for it; a region holds something else only if the primary
\* left it empty, and then it holds the fallback's string for that region.
C22_FallbackOnlyForUnread ==
    /\ (fallback_pc = "ok" /\ composition = "FallbackOcrEngine") =>
          \A i \in DOMAIN final_results :
              /\ PrimaryResults[i] # <<>> => final_results[i] = PrimaryResults[i]
              /\ final_results[i] # PrimaryResults[i]
                    => /\ PrimaryResults[i] = <<>>
                       /\ fallback_invoked
                       /\ final_results[i] = fallback_results.texts[i]
    /\ (fallback_pc = "ok" /\ composition = "TemplateMatchingWithFallback") =>
          \A i \in DOMAIN final_results :
              LET unread == \/ primary[i].text = <<>>
                            \/ Below(primary[i].confidence, MIN_CONFIDENCE)
                            \/ ~AllDigitsOrSlash(primary[i].text)
              IN /\ ~unread => final_results[i] = primary[i].text
                 /\ unread => final_results[i] = <<>>

\* C22 witness: the primary read "4" in the first region and nothing in the
\* second, the fallback returned "7" for both, and the call returned "4", "7".
C22_Witness ==
    /\ fallback_pc = "ok"
    /\ composition = "FallbackOcrEngine"
    /\ fallback_invoked
    /\ Len(primary) = 2
    /\ PrimaryResults = << <<"4">>, <<>> >>
    /\ fallback_results.texts = << <<"7">>, <<"7">> >>
    /\ final_results = << <<"4">>, <<"7">> >>

\* C23: when the search rectangle of the icon, clamped to the image, has a
\* width or a height that is not positive, detect_icon returns Ok(false): the
\* call does not fail and match_template is not run.
C23_EmptySearchAreaNotPresent ==
    [][(/\ analyze_pc = "icon"
        /\ \/ Min(250, img.cols) <= 0
           \/ Min(80, img.rows - Max(img.rows - 486, 0)) <= 0)
       => /\ analyze_pc' = "convert"
          /\ has_villager_icon' = FALSE
          /\ template_matched' = FALSE]_vars

\* C23 witness: detect_icon has returned "not present" for an image without
\* rows, without running match_template.
C23_Witness ==
    /\ img.rows = 0
    /\ img.cols = 267
    /\ analyze_pc = "convert"
    /\ ~has_villager_icon
    /\ ~template_matched

\* C24: a call of recognize_text in which a backend call failed does not
\* return Ok: the engines keep no failure counter, so the error has to come out
\* of the call.
C24_BackendErrorNotSwallowed ==
    engine_pc = "ok" => \A i \in DOMAIN backend : backend[i].ok

\* C25: every command the processor puts on the GUI channel is a
\* ProcessedFrame carrying an Ok analysis with a string for each region, each
\* string empty or made of digits and '/' only; the step in which analyze
\* fails puts nothing on the channel.
C25_OnlyValidResultsSent ==
    [][/\ \A i \in DOMAIN processed_tx' :
            /\ processed_tx'[i].kind = "ProcessedFrame"
            /\ processed_tx'[i].analysis.kind = "Ok"
            /\ Len(processed_tx'[i].analysis.detected_texts) = 2
            /\ \A r \in 1..2 :
                  \A k \in DOMAIN processed_tx'[i].analysis.detected_texts[r] :
                     processed_tx'[i].analysis.detected_texts[r][k]
                        \in {"0", "1", "2", "3", "4", "5", "6", "7", "8", "9", "/"}
       /\ (analysis' = AnalysisErr /\ analysis # AnalysisErr)
            => processed_tx' = processed_tx
       /\ analysis = AnalysisErr => Len(processed_tx') <= Len(processed_tx)]_vars

\* C25 witness: analyze failed on a later frame while the channel still holds
\* the result "3" of an earlier frame.
C25_Witness ==
    /\ analysis = AnalysisErr
    /\ processed_tx # <<>>
    /\ processed_tx[1].analysis.detected_texts[1] = <<"3">>

\* C26: once the quit button has been clicked, the GUI loop eventually
\* receives Quit and stops, also when the channel was full of results at the
\* click.
C26_QuitReceived ==
    quit_clicked ~> ~gui_running

\* C27: between two iterations the number of results offered to the channel
\* equals processed_count; while a result waits to be offered it is one less;
\* processed_count never exceeds the number of frames drained.
C27_OneResultPerProcessedFrame ==
    /\ pc = "send" => send_attempts + 1 = processed_count
    /\ pc # "send" => send_attempts = processed_count
    /\ processed_count <= frame_count
    /\ Len(processed_tx) + send_failed <= send_attempts

\* C27 witness: three frames were drained, the analysis of the third failed,
\* and the two results of the first two were offered to the channel.
C27_Witness ==
    /\ frame_count = 3
    /\ processed_count = 2
    /\ send_attempts = 2
    /\ analysis = AnalysisErr

\* C28: analyze never panics on its timer readings, and the three stage
\* durations it returns are not negative: the icon time is the first reading,
\* the conversion time the second reading less the icon time, the recognition
\* time the third reading less both, each difference taken as zero when a
\* later reading is the smaller.
C28_DurationsClamped ==
    /\ analyze_pc # "panic"
    /\ analyze_pc = "ok" =>
          /\ detect_villager_time = elapsed[1]
          /\ convert_color_time = Max(elapsed[2] - detect_villager_time, 0)
          /\ ocr_time = Max(elapsed[3] - convert_color_time - detect_villager_time, 0)
          /\ detect_villager_time >= 0 /\ convert_color_time >= 0 /\ ocr_time >= 0

\* C29: the step in which analyze returns an error ends the loop with that
\* error as the result of run, sends nothing and leaves processed_count as it
\* was; from then on no frame is drained, nothing is analyzed or sent and no
\* queued signal is consumed.
C29_AnalysisErrorIsFatal ==
    [][/\ (analysis' = AnalysisErr /\ analysis # AnalysisErr)
            => /\ pc' = "done"
               /\ run_result' = "err"
               /\ UNCHANGED <<processed_tx, processed_count, send_attempts, frame_count>>
       /\ analysis = AnalysisErr
            => /\ pc' = "done"
               /\ run_result' = "err"
               /\ UNCHANGED <<frame, frame_count, processed_count, dropped_count,
                              last_analyzed, send_attempts, signals_true, last_signal,
                              analysis>>
               /\ frame_rx' = frame_rx
               /\ Len(processed_tx') <= Len(processed_tx)]_vars

\* C29 witness: run has returned the analysis error of the second frame with a
\* signal still queued and an unread frame in the slot.
C29_Witness ==
    /\ analysis = AnalysisErr
    /\ run_result = "err"
    /\ processed_count = 1
    /\ frame_rx # <<>>
    /\ frame_rx_content.frames_written >= 1

C31_BottomWorkingArea ==
    pc = "analyze" =>
        /\ cv_mat.id = frame.bgr_buffer.id
        /\ cv_mat.cols = 267 /\ cv_mat.rows = 486
        /\ cv_mat.x = 0
        /\ cv_mat.y + cv_mat.rows = frame.height
        /\ cv_mat.x + cv_mat.cols <= frame.width
        /\ (frame.width = 267 /\ frame.height = 486) => cv_mat.y = 0

\* C31 witness: a 300 x 600 frame was cropped to its rows 114..599.
C31_Witness ==
    /\ pc = "analyze"
    /\ frame.width = 300 /\ frame.height = 600
    /\ cv_mat.y = 114
    /\ cv_mat.rows = 486 /\ cv_mat.cols = 267

\* C32: with a producer that signals has_data = true after each write and a
\* processor that is still in its loop, once every signal sent so far has been
\* received and its drain has been done, frames_written is 0: no written
\* frame is left in the slot uncounted.
C32_NoFrameStranded ==
    (/\ frame_rx = <<>>
     /\ ~signal_pending
     /\ pc \notin {"lock", "check", "reset", "done"})
    => frame_rx_content.frames_written = 0

\* C32 witness: two frames were written before the first signal was handled;
\* both signals are consumed, one frame was received and one counted as
\* dropped, and the slot's counter is back at 0.
C32_Witness ==
    /\ writes = 2
    /\ signals_true = 2
    /\ frame_rx = <<>>
    /\ ~signal_pending
    /\ pc = "recv"
    /\ frame_count = 1
    /\ dropped_sum = 1
    /\ frame_rx_content.frames_written = 0

\* C33: dropped_count is the one counter of both kinds of loss: it equals the
\* sum over the drains done of frames_written - 1 plus the number of results
\* whose send failed (the share of the current drain is added as the slot is
\* released), and processed_count <= frame_count <= number of has_data = true
\* signals consumed.
C33_SingleDroppedCounter ==
    /\ dropped_count + (IF pc \in {"reset", "unlock"} THEN dropped_frames ELSE 0)
          = dropped_sum + send_failed
    /\ processed_count <= frame_count
    /\ frame_count <= signals_true

\* C33 witness: one frame was overwritten in the slot and one result met a
\* full channel; dropped_count is 2.
C33_Witness ==
    /\ pc = "recv"
    /\ dropped_sum = 1
    /\ send_failed = 1
    /\ dropped_count = 2

\* C34: after the GUI's receiver has gone, a send of the processor fails like
\* a send on a full channel: the result is discarded, dropped_count grows by
\* 1, run goes on with the next recv; and no send step ever ends the loop.
C34_ClosedChannelDrops ==
    [][/\ (pc = "send" /\ ~gui_running /\ send_attempts' # send_attempts)
            => /\ pc' = "recv"
               /\ run_result' = "running"
               /\ dropped_count' = dropped_count + 1
               /\ processed_tx' = processed_tx
               /\ UNCHANGED <<frame_count, processed_count>>
       /\ (pc # "done" /\ pc' = "done") => pc # "send"]_vars

\* C34 witness: the GUI has quit, two results were discarded on the closed
\* channel, and the processor is analyzing the next frame.
C34_Witness ==
    /\ ~gui_running
    /\ processed_tx = <<>>
    /\ send_failed = 2
    /\ dropped_count >= 2
    /\ run_result = "running"
    /\ pc = "analyze"

\* C35: when every sender of the control channel is dropped and no stop signal
\* was sent, the processor leaves its loop: it does so through recv only once
\* the queue is empty, and run then returns Ok as after a stop signal.
C35_DisconnectTerminates ==
    /\ [](last_signal = "disconnected"
            => /\ pc = "done" /\ run_result = "ok"
               /\ frame_rx = <<>> /\ ~senders_alive)
    /\ []((pc = "done" /\ run_result = "ok" /\ ~stop_sent)
            => (last_signal = "disconnected" /\ frame_rx = <<>>))
    /\ (~senders_alive /\ ~stop_sent) ~> (pc = "done")

\* C35 witness: the senders were dropped with two signals queued and no stop
\* signal; both were consumed before run returned Ok.
C35_Witness ==
    /\ last_signal = "disconnected"
    /\ ~stop_sent
    /\ signals_true = 2
    /\ frame_count = 2
    /\ run_result = "ok"

\* C37: after a frame has been applied the centered label holds one text,
\* chosen by priority: empty when the population has no total above 0 (also
\* when the total could not be read); else "Haus!" when cur + 2 >= total;
\* else "Idle!" when the idle count is above 0; else "Villager!" when the
\* villager icon is absent; else empty.
C37_AlertPriority ==
    label_pc = "done" =>
        LET in == label_input
            idle == IF in.idle_read THEN in.idle ELSE 0
        IN centered_label =
             IF ~in.wellformed \/ in.total <= 0 THEN ""
             ELSE IF in.cur + 2 >= in.total THEN "Haus!"
             ELSE IF idle > 0 THEN "Idle!"
             ELSE IF ~in.has_villager THEN "Villager!"
             ELSE ""

\* C37 witness: population 198/200 with two idle villagers and no icon shows
\* "Haus!", the alert of highest priority.
C37_Witness ==
    /\ label_pc = "done"
    /\ label_input.wellformed
    /\ label_input.cur = 198 /\ label_input.total = 200
    /\ label_input.idle = 2 /\ label_input.idle_read
    /\ ~label_input.has_villager
    /\ centered_label = "Haus!"

\* C38: the GUI loop takes the commands in the order in which they were
\* queued; a ProcessedFrame is applied to the window only as the head of the
\* queue and only while no Quit has been received; receiving Quit stops the
\* loop, and from then on nothing is applied.
C38_StopsAtFirstQuit ==
    [][/\ applied_count' # applied_count
            => /\ gui_running /\ gui_running'
               /\ processed_tx # <<>>
               /\ Head(processed_tx).kind = "ProcessedFrame"
               /\ applied_count' = applied_count + 1
               /\ processed_tx' = Tail(processed_tx)
       /\ (gui_running /\ ~gui_running')
            => /\ processed_tx # <<>>
               /\ Head(processed_tx).kind = "Quit"
               /\ applied_count' = applied_count
       /\ ~gui_running => (applied_count' = applied_count /\ ~gui_running')]_vars

\* C38 witness: a result was queued behind Quit; the loop stopped at Quit
\* and the result was never applied to the window.
C38_Witness ==
    /\ ~gui_running
    /\ applied_count + 1 = send_attempts - send_failed
    /\ applied_count >= 1

\* C36: in the 267 x 486 working-area image the rectangle cropped for each of
\* the ten stats is (x, 486 + y, 80, 34) and lies inside the image:
\* 0 <= x, x + 80 <= 267, 0 <= 486 + y and 486 + y + 34 <= 486; the crop
\* does not fail.
C36_RegionsInsideImage ==
    (region_pc \notin {"idle", "crop"} /\ region_img = [width |-> 267, height |-> 486])
    => /\ region_pc = "cropped"
       /\ subview.width = 80 /\ subview.height = 34
       /\ subview.x = AOE4_STATS_POS[region_index].x
       /\ subview.y = 486 + AOE4_STATS_POS[region_index].y
       /\ 0 <= subview.x /\ subview.x + 80 <= 267
       /\ 0 <= subview.y /\ subview.y + 34 <= 486

\* C36 witness: the tenth region (x = 187, y = 419) of the working-area image
\* was cropped, its right edge on the image's last column.
C36_Witness ==
    /\ region_pc = "cropped"
    /\ region_img = [width |-> 267, height |-> 486]
    /\ region_index = 10
    /\ subview = [x |-> 187, y |-> 419, width |-> 80, height |-> 34]

====
